---- MODULE Spec2Model ----
(***************************************************************************)
(* Verification model of the Indian market stock price tracker:            *)
(*   - the stock table, its refresh upsert, the track toggle and the       *)
(*     undervaluation scorer           (lib/stockService.ts,               *)
(*                                      lib/getUndervaluedStocks.ts)       *)
(*   - the FII/DII holding table and its change classifier                 *)
(*                                     (lib/fiiDiiService.ts)              *)
(*   - the quarter calendar            (lib/fiiDiiService.ts,              *)
(*                                      lib/quarterResultsService.ts)      *)
(*                                                                         *)
(* Encoding of JavaScript values.  A number is a tuple: <<v>> is the       *)
(* finite number v, <<s, 0>> is non-finite (s = 1: Infinity, s = -1:       *)
(* -Infinity, s = 0: NaN) and <<>> is null / undefined.  Prices are whole  *)
(* rupees, market capitalisation is counted in units of 10^7 rupees (one   *)
(* crore), holdings are counted in hundredths of a percentage point and    *)
(* deltas in hundredths of a percent, so that toFixed(2) is integer        *)
(* rounding.                                                               *)
(***************************************************************************)
EXTENDS Integers, Sequences, FiniteSets, TLC

VARIABLES
    stocks,      \* prisma.stock: symbol -> row, or NoRow when not stored
    run,         \* getUndervaluedStocks invocations: position and locals
    interfered,  \* history: another writer changed prisma.stock during the pass
    lastRun,     \* history: undervaluedIds of the latest pass that began writing
    passDone,    \* history: the pass that completed in the last step, if any
    feed,        \* the payload the market-data source answers with (scorer harness)
    holdings,    \* prisma.fiiDiiHolding: the set of stored rows
    saves,       \* saveFiiDiiData invocations between their read and their upsert
    nSaves,      \* number of saveFiiDiiData invocations started
    cal,         \* quarter calendar harness: the clock, a period token, what was derived
    results,     \* prisma.quarterResult: the set of stored rows
    clock,       \* the wall clock: a calendar date and whether its midnight has passed
    gen,         \* generateQuarterResultsForAllStocks invocation: position and locals
    op,          \* history: the mark-announced or source-refresh call of the last step
    nCalls,      \* number of mark-announced and source-refresh calls made
    activity,    \* what getStocksWithSignificantFiiDiiActivity returned in the last step
    fetched,     \* what fetchFiiDiiData returned last, with the origin of each field
    batch        \* a batch refresh: its arguments, position, result entries and pauses

stockVars == <<stocks, run, interfered, lastRun, passDone, feed>>

holdVars == <<holdings, saves, nSaves>>

schedVars == <<results, clock, gen, op, nCalls>>

vars == <<stocks, run, interfered, lastRun, passDone, feed, holdings, saves, nSaves, cal,
          results, clock, gen, op, nCalls, activity, fetched, batch>>

----------------------------------------------------------------------------
(* JavaScript values *)

Null == <<>>

Undefined == <<>>

Num(v) == <<v>>

IsFinite(x) == Len(x) = 1

Val(x) == x[1]

\* JavaScript truthiness of a number | null | undefined: null, undefined, 0 and NaN are falsy
Truthy(x) == IF Len(x) = 0 THEN FALSE ELSE IF Len(x) = 1 THEN x[1] # 0 ELSE x[1] # 0

\* a || b on numbers
OrElse(a, b) == IF Truthy(a) THEN a ELSE b

Abs(n) == IF n < 0 THEN -n ELSE n

----------------------------------------------------------------------------
(* The stock table and its writers *)

Symbols == {"RELIANCE", "TCS"}

Scorers == {"s1", "s2"}

NoRow == [absent |-> TRUE]

NoFeed == [none |-> TRUE]

\* no query was answered in the last step
NoQuery == [asked |-> FALSE]

\* nothing was fetched in the last step
NoFetch == [fetched |-> FALSE]

\* no batch refresh was started
NoBatch == [pc |-> "none"]

\* no pass completed in the last step
NoPass == [completed |-> FALSE, clean |-> FALSE, reset |-> {}]

\* 50000000000 rupees (5000 crores), in units of 10^7 rupees
SmallCapLimit == 5000

StoredSymbols == {s \in Symbols : stocks[s] # NoRow}

\* payloads of the concurrent specification
SmallPayloads ==
    [lastPrice : {0, 100}, pe : {Undefined}, weekHigh52 : {Undefined, Num(200)},
     weekLow52 : {Undefined}, marketCap : {Undefined}]

\* payloads of the scorer harness: every threshold of every factor is hit
PriceValues == {0, 69, 70, 80, 90, 100, 120, 125, 150}

PeValues == {Undefined, Num(0), Num(12), Num(15), Num(17), Num(20), Num(25)}

HighValues == {Undefined, Num(0), Num(100), Num(200)}

LowValues == {Undefined, Num(0), Num(80), Num(100)}

CapValues == {Undefined, Num(0), Num(4999), Num(5000), Num(6000)}

AllPayloads ==
    [lastPrice : PriceValues, pe : PeValues, weekHigh52 : HighValues,
     weekLow52 : LowValues, marketCap : CapValues]

\* mutant of UpsertedRow: the update branch writes isTracked: false as well
UpsertedRow_untracks(old, sym, data) ==
    [symbol |-> sym,
     currentPrice |-> data.lastPrice,
     peRatio |-> OrElse(data.pe, Null),
     weekHigh |-> Val(OrElse(data.weekHigh52, Num(data.lastPrice))),
     weekLow |-> Val(OrElse(data.weekLow52, Num(data.lastPrice))),
     marketCap |-> OrElse(data.marketCap, Null),
     isTracked |-> FALSE,
     isUndervalued |-> IF old = NoRow THEN FALSE ELSE old.isUndervalued]

\* the row prisma.stock.upsert writes: the update branch keeps isTracked and
\* isUndervalued of the stored row, the create branch sets both to false
UpsertedRow(old, sym, data) ==
    [symbol |-> sym,
     currentPrice |-> data.lastPrice,
     peRatio |-> OrElse(data.pe, Null),
     weekHigh |-> Val(OrElse(data.weekHigh52, Num(data.lastPrice))),
     weekLow |-> Val(OrElse(data.weekLow52, Num(data.lastPrice))),
     marketCap |-> OrElse(data.marketCap, Null),
     isTracked |-> IF old = NoRow THEN FALSE ELSE old.isTracked,
     isUndervalued |-> IF old = NoRow THEN FALSE ELSE old.isUndervalued]

\* every pass in progress other than `self` sees a foreign write
Disturb(self) == [p \in Scorers |-> IF p # self /\ run[p].pc # "idle" THEN TRUE ELSE interfered[p]]

updateStockInDB(sym, data) ==
    /\ stocks' = [stocks EXCEPT ![sym] = UpsertedRow(stocks[sym], sym, data)]
    /\ interfered' = Disturb("refresh")
    /\ passDone' = NoPass
    /\ UNCHANGED <<run, lastRun, feed>>
    /\ UNCHANGED <<holdVars, cal, schedVars, activity, fetched, batch>>

\* POST /api/stocks/[id]/track
TrackStock(sym, isTracked) ==
    /\ stocks[sym] # NoRow
    /\ stocks' = [stocks EXCEPT ![sym].isTracked = isTracked]
    /\ passDone' = NoPass
    /\ UNCHANGED <<run, interfered, lastRun, feed>>
    /\ UNCHANGED <<holdVars, cal, schedVars, activity, fetched, batch>>

----------------------------------------------------------------------------
(* The valuation scorer *)

\* mutant of PeFactor: the low band includes P/E = 15
PeFactor_inclusive(stock) ==
    IF Truthy(stock.peRatio) /\ Val(stock.peRatio) > 0
    THEN IF Val(stock.peRatio) <= 15 THEN 30
         ELSE IF Val(stock.peRatio) < 20 THEN 15 ELSE 0
    ELSE 0

\* Factor 1: P/E ratio
PeFactor(stock) ==
    IF Truthy(stock.peRatio) /\ Val(stock.peRatio) > 0
    THEN IF Val(stock.peRatio) < 15 THEN 30
         ELSE IF Val(stock.peRatio) < 20 THEN 15 ELSE 0
    ELSE 0

\* mutant of HighFactor: the three bands are independent ifs and accumulate
HighFactor_cumulative(stock) ==
    IF stock.weekHigh > 0 /\ stock.currentPrice > 0
    THEN (IF (stock.weekHigh - stock.currentPrice) * 100 > 30 * stock.weekHigh THEN 40 ELSE 0)
         + (IF (stock.weekHigh - stock.currentPrice) * 100 > 20 * stock.weekHigh THEN 25 ELSE 0)
         + (IF (stock.weekHigh - stock.currentPrice) * 100 > 10 * stock.weekHigh THEN 10 ELSE 0)
    ELSE 0

\* Factor 2: price relative to the 52-week high;
\* ((weekHigh - currentPrice) / weekHigh) * 100 > k, for weekHigh > 0
HighFactor(stock) ==
    IF stock.weekHigh > 0 /\ stock.currentPrice > 0
    THEN IF (stock.weekHigh - stock.currentPrice) * 100 > 30 * stock.weekHigh THEN 40
         ELSE IF (stock.weekHigh - stock.currentPrice) * 100 > 20 * stock.weekHigh THEN 25
         ELSE IF (stock.weekHigh - stock.currentPrice) * 100 > 10 * stock.weekHigh THEN 10
         ELSE 0
    ELSE 0

\* Factor 3: price relative to the 52-week low
LowFactor(stock) ==
    IF stock.weekLow > 0 /\ stock.currentPrice > 0
    THEN IF /\ (stock.currentPrice - stock.weekLow) * 100 > 20 * stock.weekLow
            /\ (stock.currentPrice - stock.weekLow) * 100 < 50 * stock.weekLow
         THEN 20 ELSE 0
    ELSE 0

\* Factor 4: market capitalisation
CapFactor(stock) ==
    IF Truthy(stock.marketCap)
    THEN IF Val(stock.marketCap) < SmallCapLimit THEN 10 ELSE 0
    ELSE 0

\* mutant of Score: a snapshot with a zero bound is given up
Score_zeroBoundSkipped(stock) ==
    IF stock.weekHigh = 0 \/ stock.weekLow = 0 THEN 0
    ELSE PeFactor(stock) + HighFactor(stock) + LowFactor(stock) + CapFactor(stock)

\* the score accumulated by one iteration of the loop
Score(stock) == PeFactor(stock) + HighFactor(stock) + LowFactor(stock) + CapFactor(stock)

\* findMany({ where: { currentPrice: { gt: 0 } } })
PricedSymbols == {s \in StoredSymbols : stocks[s].currentPrice > 0}

\* undervaluedStocks.map((s) => s.id)
UndervaluedIds(p) == {s \in DOMAIN run[p].scores : run[p].scores[s] >= 30}

IdleRun == [pc |-> "idle", scores |-> <<>>, read |-> <<>>, list |-> <<>>]

\* the orders findMany can return the rows of `set` in
Orders(set) ==
    {order \in [1..Cardinality(set) -> set] :
        \A i, j \in 1..Cardinality(set) : i # j => order[i] # order[j]}

\* if (score >= 30) undervaluedStocks.push(...), in the order read
RECURSIVE Pushed(_)
Pushed(read) ==
    IF read = <<>> THEN <<>>
    ELSE (IF Score(stocks[Head(read)]) >= 30 THEN <<Head(read)>> ELSE <<>>) \o Pushed(Tail(read))

\* mutant of Inserted: an element goes before the elements of equal score
Inserted_beforeEqual(sorted, s) ==
    LET n == Cardinality({i \in DOMAIN sorted : Score(stocks[sorted[i]]) > Score(stocks[s])})
    IN SubSeq(sorted, 1, n) \o <<s>> \o SubSeq(sorted, n + 1, Len(sorted))

\* s placed in a list sorted by (a, b) => b.undervaluedScore - a.undervaluedScore:
\* after every element whose score is not lower (Array.prototype.sort is stable)
Inserted(sorted, s) ==
    LET n == Cardinality({i \in DOMAIN sorted : Score(stocks[sorted[i]]) >= Score(stocks[s])})
    IN SubSeq(sorted, 1, n) \o <<s>> \o SubSeq(sorted, n + 1, Len(sorted))

\* undervaluedStocks.sort((a, b) => b.undervaluedScore - a.undervaluedScore)
RECURSIVE Sorted(_)
Sorted(list) ==
    IF list = <<>> THEN <<>>
    ELSE Inserted(Sorted(SubSeq(list, 1, Len(list) - 1)), list[Len(list)])

\* the read and the scoring loop of getUndervaluedStocks
ScoreRead(p) ==
    /\ run[p].pc = "idle"
    /\ \E read \in Orders(PricedSymbols) :
          run' = [run EXCEPT ![p] = [pc |-> "scored",
                                    scores |-> [s \in PricedSymbols |-> Score(stocks[s])],
                                    read |-> read, list |-> Sorted(Pushed(read))]]
    /\ interfered' = [interfered EXCEPT ![p] = FALSE]
    /\ passDone' = NoPass
    /\ UNCHANGED <<stocks, lastRun, feed>>
    /\ UNCHANGED <<holdVars, cal, schedVars, activity, fetched, batch>>

\* updateMany({ where: { id: { in: undervaluedIds } }, data: { isUndervalued: true } })
SetTrue(p) ==
    /\ run[p].pc = "scored"
    /\ stocks' = [s \in Symbols |->
                    IF stocks[s] # NoRow /\ s \in UndervaluedIds(p)
                    THEN [stocks[s] EXCEPT !.isUndervalued = TRUE]
                    ELSE stocks[s]]
    /\ run' = [run EXCEPT ![p].pc = "flagged"]
    /\ interfered' = Disturb(p)
    /\ lastRun' = UndervaluedIds(p)
    /\ passDone' = NoPass
    /\ UNCHANGED feed
    /\ UNCHANGED <<holdVars, cal, schedVars, activity, fetched, batch>>

\* mutant of SetFalse: only the snapshots the pass scored are reset
SetFalse_onlyScored(p) ==
    /\ run[p].pc = "flagged"
    /\ stocks' = [s \in Symbols |->
                    IF stocks[s] # NoRow /\ s \in DOMAIN run[p].scores /\ s \notin UndervaluedIds(p)
                    THEN [stocks[s] EXCEPT !.isUndervalued = FALSE]
                    ELSE stocks[s]]
    /\ run' = [run EXCEPT ![p] = IdleRun]
    /\ interfered' = Disturb(p)
    /\ passDone' = [completed |-> TRUE, clean |-> ~interfered[p],
                    reset |-> {s \in StoredSymbols :
                                 s \notin UndervaluedIds(p) /\ stocks[s].isUndervalued}]
    /\ UNCHANGED <<lastRun, feed>>
    /\ UNCHANGED <<holdVars, cal, schedVars, activity, fetched, batch>>

\* updateMany({ where: { id: { notIn: undervaluedIds } }, data: { isUndervalued: false } })
SetFalse(p) ==
    /\ run[p].pc = "flagged"
    /\ stocks' = [s \in Symbols |->
                    IF stocks[s] # NoRow /\ s \notin UndervaluedIds(p)
                    THEN [stocks[s] EXCEPT !.isUndervalued = FALSE]
                    ELSE stocks[s]]
    /\ run' = [run EXCEPT ![p] = IdleRun]
    /\ interfered' = Disturb(p)
    /\ passDone' = [completed |-> TRUE, clean |-> ~interfered[p],
                    reset |-> {s \in StoredSymbols :
                                 s \notin UndervaluedIds(p) /\ stocks[s].isUndervalued}]
    /\ UNCHANGED <<lastRun, feed>>
    /\ UNCHANGED <<holdVars, cal, schedVars, activity, fetched, batch>>

----------------------------------------------------------------------------
(* Strings, as sequences of one-character strings, and Date *)

NaN == <<0, 0>>

Digit == <<"0", "1", "2", "3", "4", "5", "6", "7", "8", "9">>

IsDigit(c) == \E d \in 1..10 : Digit[d] = c

DigitVal(c) == (CHOOSE d \in 1..10 : Digit[d] = c) - 1

RECURSIVE NatToStr(_)
NatToStr(n) == IF n < 10 THEN <<Digit[n + 1]>> ELSE NatToStr(n \div 10) \o <<Digit[(n % 10) + 1]>>

\* `${x}` for a number x
NumToStr(x) ==
    IF ~IsFinite(x) THEN <<"N", "a", "N">>
    ELSE IF Val(x) < 0 THEN <<"-">> \o NatToStr(-Val(x)) ELSE NatToStr(Val(x))

RECURSIVE StrToNat(_)
StrToNat(s) == IF s = <<>> THEN 0 ELSE StrToNat(SubSeq(s, 1, Len(s) - 1)) * 10 + DigitVal(s[Len(s)])

RECURSIVE DigitPrefixLen(_, _)
DigitPrefixLen(s, i) == IF i <= Len(s) /\ IsDigit(s[i]) THEN DigitPrefixLen(s, i + 1) ELSE i - 1

\* parseInt(s): optional sign, then the longest prefix of digits; NaN when there is none
parseInt(s) ==
    LET signed == Len(s) > 0 /\ s[1] \in {"-", "+"}
        body == IF signed THEN Tail(s) ELSE s
        n == DigitPrefixLen(body, 1)
    IN IF n = 0 THEN NaN
       ELSE Num((IF s[1] = "-" THEN -1 ELSE 1) * StrToNat(SubSeq(body, 1, n)))

\* s.indexOf(c) + 1
IndexOf(s, c) ==
    IF \E i \in 1..Len(s) : s[i] = c
    THEN CHOOSE i \in 1..Len(s) : s[i] = c /\ \A j \in 1..(i - 1) : s[j] # c
    ELSE 0

RECURSIVE split(_, _)
split(s, c) ==
    LET i == IndexOf(s, c)
    IN IF i = 0 THEN <<s>> ELSE <<SubSeq(s, 1, i - 1)>> \o split(SubSeq(s, i + 1, Len(s)), c)

\* s.replace(c, "")
replace(s, c) ==
    LET i == IndexOf(s, c)
    IN IF i = 0 THEN s ELSE SubSeq(s, 1, i - 1) \o SubSeq(s, i + 1, Len(s))

\* x + k on numbers
Plus(x, k) == IF IsFinite(x) THEN Num(Val(x) + k) ELSE x

\* x * k on numbers
Times(x, k) == IF IsFinite(x) THEN Num(Val(x) * k) ELSE x

\* x === n
Is(x, n) == IsFinite(x) /\ Val(x) = n

InvalidDate == [invalid |-> TRUE]

IsLeap(y) == (y % 4 = 0 /\ y % 100 # 0) \/ y % 400 = 0

\* days in month m (0 = January) of year y
DaysInMonth(y, m) ==
    IF m = 1 THEN (IF IsLeap(y) THEN 29 ELSE 28)
    ELSE IF m \in {3, 5, 8, 10} THEN 30 ELSE 31

RECURSIVE NormDate(_, _, _)
NormDate(y, m, d) ==
    IF m > 11 THEN NormDate(y + 1, m - 12, d)
    ELSE IF m < 0 THEN NormDate(y - 1, m + 12, d)
    ELSE IF d > DaysInMonth(y, m) THEN NormDate(y, m + 1, d - DaysInMonth(y, m))
    ELSE IF d < 1 THEN NormDate(IF m = 0 THEN y - 1 ELSE y, IF m = 0 THEN 11 ELSE m - 1,
                                d + DaysInMonth(IF m = 0 THEN y - 1 ELSE y,
                                                IF m = 0 THEN 11 ELSE m - 1))
    ELSE [year |-> y, month |-> m, date |-> d]

\* new Date(year, monthIndex, day): out-of-range days and months roll over,
\* years 0..99 mean 1900..1999
NewDate(y, m, d) ==
    IF ~IsFinite(y) \/ ~IsFinite(m) \/ ~IsFinite(d) THEN InvalidDate
    ELSE NormDate(IF Val(y) \in 0..99 THEN Val(y) + 1900 ELSE Val(y), Val(m), Val(d))

----------------------------------------------------------------------------
(* The quarter calendar *)

MinYear == 2023

MaxYear == 2026

MaxTrail == 2

\* `Q${quarter}-${year}` from the wall clock
getCurrentQuarter(now) ==
    <<"Q">> \o NumToStr(Num(now.month \div 3 + 1)) \o <<"-">> \o NumToStr(Num(now.year))

\* const [q, year] = s.split("-"); parseInt(q.replace("Q", "")), parseInt(year)
QuarterNum(quarter) == parseInt(replace(split(quarter, "-")[1], "Q"))

YearNum(quarter) ==
    LET parts == split(quarter, "-")
    IN IF Len(parts) >= 2 THEN parseInt(parts[2]) ELSE NaN

\* mutant of getPreviousQuarter: Q1 goes to Q4 of the same year
getPreviousQuarter_sameYear(currentQuarter) ==
    IF Is(QuarterNum(currentQuarter), 1)
    THEN <<"Q", "4", "-">> \o NumToStr(YearNum(currentQuarter))
    ELSE <<"Q">> \o NumToStr(Plus(QuarterNum(currentQuarter), -1)) \o <<"-">>
             \o NumToStr(YearNum(currentQuarter))

getPreviousQuarter(currentQuarter) ==
    IF Is(QuarterNum(currentQuarter), 1)
    THEN <<"Q", "4", "-">> \o NumToStr(Plus(YearNum(currentQuarter), -1))
    ELSE <<"Q">> \o NumToStr(Plus(QuarterNum(currentQuarter), -1)) \o <<"-">>
             \o NumToStr(YearNum(currentQuarter))

getNextQuarter(currentQuarter) ==
    IF Is(QuarterNum(currentQuarter), 4)
    THEN <<"Q", "1", "-">> \o NumToStr(Plus(YearNum(currentQuarter), 1))
    ELSE <<"Q">> \o NumToStr(Plus(QuarterNum(currentQuarter), 1)) \o <<"-">>
             \o NumToStr(YearNum(currentQuarter))

\* fiiDiiService.getQuarterEndDate: month = quarterNum * 3 - 1,
\* day = month === 11 ? 31 : [3, 6, 9].includes(month) ? 30 : 31
getQuarterEndDate(quarter) ==
    LET month == Plus(Times(QuarterNum(quarter), 3), -1)
        day == IF Is(month, 11) THEN 31
               ELSE IF IsFinite(month) /\ Val(month) \in {3, 6, 9} THEN 30 ELSE 31
    IN NewDate(YearNum(quarter), month, Num(day))

\* quarterResultsService.getQuarterEndDate: one branch per quarter
getQuarterEndDate_results(quarter) ==
    LET quarterNum == QuarterNum(quarter)
        month == IF Is(quarterNum, 1) THEN 2 ELSE IF Is(quarterNum, 2) THEN 5
                 ELSE IF Is(quarterNum, 3) THEN 8 ELSE 11
        day == IF Is(quarterNum, 1) THEN 31 ELSE IF Is(quarterNum, 2) THEN 30
               ELSE IF Is(quarterNum, 3) THEN 30 ELSE 31
    IN NewDate(YearNum(quarter), Num(month), Num(day))

NoDate == [computed |-> FALSE]

Clocks == [year : MinYear..MaxYear, month : 0..11]

\* the harness state for wall clock `now`: the current period and nothing derived
CalStart(now) ==
    [now |-> now, origin |-> getCurrentQuarter(now), quarter |-> getCurrentQuarter(now),
     trail |-> <<>>, endHoldings |-> NoDate, endResults |-> NoDate]

ApplyPrevious ==
    /\ Len(cal.trail) < MaxTrail
    /\ cal' = [cal EXCEPT !.quarter = getPreviousQuarter(cal.quarter),
                          !.trail = Append(cal.trail, "previous"),
                          !.endHoldings = NoDate, !.endResults = NoDate]
    /\ UNCHANGED <<stockVars, holdVars, schedVars, activity, fetched, batch>>

ApplyNext ==
    /\ Len(cal.trail) < MaxTrail
    /\ cal' = [cal EXCEPT !.quarter = getNextQuarter(cal.quarter),
                          !.trail = Append(cal.trail, "next"),
                          !.endHoldings = NoDate, !.endResults = NoDate]
    /\ UNCHANGED <<stockVars, holdVars, schedVars, activity, fetched, batch>>

ApplyEndDateHoldings ==
    /\ cal.endHoldings = NoDate
    /\ cal' = [cal EXCEPT !.endHoldings = getQuarterEndDate(cal.quarter)]
    /\ UNCHANGED <<stockVars, holdVars, schedVars, activity, fetched, batch>>

ApplyEndDateResults ==
    /\ cal.endResults = NoDate
    /\ cal' = [cal EXCEPT !.endResults = getQuarterEndDate_results(cal.quarter)]
    /\ UNCHANGED <<stockVars, holdVars, schedVars, activity, fetched, batch>>

----------------------------------------------------------------------------
(* The FII/DII holding table and the change classifier *)

MaxSaves == 3

\* the periods holdings are saved for: Q4-2024, Q1-2025, Q2-2025
HoldQuarters ==
    {getCurrentQuarter(now) : now \in {[year |-> 2024, month |-> 10],
                                       [year |-> 2025, month |-> 1],
                                       [year |-> 2025, month |-> 4]}}

\* the FiiDiiData handed to saveFiiDiiData
FiiDiiData(sym, quarter, fii, dii, total) ==
    [symbol |-> sym, quarter |-> quarter, quarterEndDate |-> getQuarterEndDate(quarter),
     fiiHolding |-> fii, diiHolding |-> dii, totalInstitutional |-> total]

\* (fiiHolding || 0) + (diiHolding || 0), null when both are null
TotalOf(fii, dii) ==
    IF fii # Null \/ dii # Null
    THEN Num(Val(OrElse(fii, Num(0))) + Val(OrElse(dii, Num(0))))
    ELSE Null

\* data of the ordering specification: the total is the sum, as fetchFiiDiiData builds it
OrderedData ==
    {FiiDiiData(sym, quarter, fii, Num(1000), TotalOf(fii, Num(1000))) :
        sym \in Symbols, quarter \in HoldQuarters, fii \in {Null, Num(2000), Num(2100)}}

\* values of the classifier harness: null, zero, a 5.00% step, a 15% step and
\* steps that need rounding; POST /api/stocks/fii-dii overrides each field freely
FiiValues == {Null, Num(0), Num(2000), Num(2100), Num(2300)}

DiiValues == {Null, Num(0), Num(1000), Num(1049)}

TotalValues == {Null, Num(3000), Num(3150)}

ClassifierFeeds ==
    [prior : {FiiDiiData("RELIANCE", <<"Q", "4", "-", "2", "0", "2", "4">>, f, d, t) :
                 f \in FiiValues, d \in DiiValues, t \in TotalValues},
     current : {FiiDiiData("RELIANCE", <<"Q", "1", "-", "2", "0", "2", "5">>, f, d, t) :
                 f \in FiiValues, d \in DiiValues, t \in TotalValues}]

\* n / d rounded to the nearest integer, halves away from zero (toFixed)
RoundDiv(n, d) ==
    (IF (n < 0) = (d < 0) THEN 1 ELSE -1) * ((2 * Abs(n) + Abs(d)) \div (2 * Abs(d)))

\* parseFloat((((current - previous) / previous) * 100).toFixed(2)), in hundredths
PctChange(current, previous) ==
    IF previous = 0
    THEN (IF current > 0 THEN <<1, 0>> ELSE IF current < 0 THEN <<-1, 0>> ELSE NaN)
    ELSE Num(RoundDiv((current - previous) * 10000, previous))

\* mutant of ChangeOf: the prior value is tested against null instead of for truthiness
ChangeOf_nullTest(previous, current) ==
    IF previous # Null /\ current # Null
    THEN PctChange(Val(current), Val(previous))
    ELSE Null

\* if (previousData.x && currentData.x !== null) xChange = ...
ChangeOf(previous, current) ==
    IF Truthy(previous) /\ current # Null
    THEN PctChange(Val(current), Val(previous))
    ELSE Null

\* mutant of AtLeastFive: the threshold itself is excluded
AtLeastFive_strict(change) ==
    change # Null /\ (IF IsFinite(change) THEN Abs(Val(change)) > 500 ELSE Val(change) # 0)

\* change !== null && Math.abs(change) >= 5
AtLeastFive(change) ==
    change # Null /\ (IF IsFinite(change) THEN Abs(Val(change)) >= 500 ELSE Val(change) # 0)

\* the body of calculateFiiDiiChanges once previousData has been read
Changes(currentData, previousData) ==
    IF previousData # NoRow
    THEN LET fiiChange == ChangeOf(previousData.fiiHolding, currentData.fiiHolding)
             diiChange == ChangeOf(previousData.diiHolding, currentData.diiHolding)
             totalChange == ChangeOf(previousData.totalInstitutional,
                                     currentData.totalInstitutional)
         IN [fiiChange |-> fiiChange, diiChange |-> diiChange, totalChange |-> totalChange,
             isSignificant |-> AtLeastFive(fiiChange) \/ AtLeastFive(diiChange)
                                   \/ AtLeastFive(totalChange)]
    ELSE [fiiChange |-> Null, diiChange |-> Null, totalChange |-> Null,
          isSignificant |-> FALSE]

\* mutant of PreviousData: the security is not part of the filter
PreviousData_anyStock(stockId, quarter) ==
    LET found == {r \in holdings : r.quarter = quarter}
    IN IF found = {} THEN NoRow ELSE CHOOSE r \in found : TRUE

\* prisma.fiiDiiHolding.findFirst({ where: { stockId, quarter } })
PreviousData(stockId, quarter) ==
    LET found == {r \in holdings : r.stockId = stockId /\ r.quarter = quarter}
    IN IF found = {} THEN NoRow ELSE CHOOSE r \in found : TRUE

\* the row of the create / update branch of the upsert
HoldingRow(stockId, data, changes) ==
    [stockId |-> stockId, quarter |-> data.quarter, quarterEndDate |-> data.quarterEndDate,
     fiiHolding |-> data.fiiHolding, diiHolding |-> data.diiHolding,
     totalInstitutional |-> data.totalInstitutional,
     previousQuarter |-> getPreviousQuarter(data.quarter),
     fiiChange |-> changes.fiiChange, diiChange |-> changes.diiChange,
     totalChange |-> changes.totalChange, isSignificant |-> changes.isSignificant]

\* mutant of Upserted: the row is always created
Upserted_alwaysCreate(rows, row) == rows \cup {row}

\* prisma.fiiDiiHolding.upsert on the unique key (stockId, quarter)
Upserted(rows, row) ==
    {r \in rows : ~(r.stockId = row.stockId /\ r.quarter = row.quarter)} \cup {row}

\* saveFiiDiiData up to the end of calculateFiiDiiChanges
SaveCalculate(stockId, data) ==
    /\ nSaves < MaxSaves
    /\ stocks[stockId] # NoRow
    /\ LET previousData == PreviousData(stockId, getPreviousQuarter(data.quarter))
       IN saves' = saves \cup {[n |-> nSaves + 1, stockId |-> stockId, data |-> data,
                                previousData |-> previousData,
                                changes |-> Changes(data, previousData)]}
    /\ nSaves' = nSaves + 1
    /\ activity' = NoQuery
    /\ UNCHANGED <<holdings, stockVars, cal, schedVars, fetched, batch>>

\* saveFiiDiiData from the upsert on
SaveUpsert(sv) ==
    /\ sv \in saves
    /\ holdings' = Upserted(holdings, HoldingRow(sv.stockId, sv.data, sv.changes))
    /\ saves' = saves \ {sv}
    /\ activity' = NoQuery
    /\ UNCHANGED <<nSaves, stockVars, cal, schedVars, fetched, batch>>

----------------------------------------------------------------------------
(* The significant-activity query *)

\* the thresholds GET /api/stocks/fii-dii/significant passes: parseFloat of the
\* minChange parameter (5 by default), in hundredths of a percent
MinChanges == {-2000, 0, 500, 1500}

\* UTF-16 code units of the characters of a period token
CharCode(c) == IF c = "Q" THEN 81 ELSE IF c = "-" THEN 45 ELSE 48 + DigitVal(c)

\* a > b on strings: code units compared from the left, a proper prefix is smaller
RECURSIVE StrGreater(_, _)
StrGreater(a, b) ==
    IF a = <<>> THEN FALSE
    ELSE IF b = <<>> THEN TRUE
    ELSE IF Head(a) # Head(b) THEN CharCode(Head(a)) > CharCode(Head(b))
    ELSE StrGreater(Tail(a), Tail(b))

\* { column: { gte: minChange } }: a null column matches no comparison
Gte(change, minChange) == change # Null /\ IsFinite(change) /\ Val(change) >= minChange

\* mutant of Matches: the isSignificant condition is left out of the filter
Matches_anySignificance(r, minChange) ==
    \/ Gte(r.fiiChange, minChange)
    \/ Gte(r.diiChange, minChange)
    \/ Gte(r.totalChange, minChange)

\* where: { isSignificant: true, OR: [fiiChange gte, diiChange gte, totalChange gte] }
Matches(r, minChange) ==
    /\ r.isSignificant
    /\ \/ Gte(r.fiiChange, minChange)
       \/ Gte(r.diiChange, minChange)
       \/ Gte(r.totalChange, minChange)

\* ORDER BY column DESC of PostgreSQL: nulls come first
DescBefore(a, b) == IF a = Null THEN b # Null ELSE b # Null /\ Val(a) > Val(b)

\* orderBy: [{ totalChange: "desc" }, { fiiChange: "desc" }, { diiChange: "desc" }]
Precedes(r1, r2) ==
    \/ DescBefore(r1.totalChange, r2.totalChange)
    \/ /\ r1.totalChange = r2.totalChange
       /\ \/ DescBefore(r1.fiiChange, r2.fiiChange)
          \/ /\ r1.fiiChange = r2.fiiChange
             /\ DescBefore(r1.diiChange, r2.diiChange)

\* the rows in the order findMany returns them (rows equal on all three columns
\* in an order of the database's choosing)
RECURSIVE OrderBy(_)
OrderBy(rows) ==
    IF rows = {} THEN <<>>
    ELSE LET first == CHOOSE r \in rows : \A o \in rows : ~Precedes(o, r)
         IN <<first>> \o OrderBy(rows \ {first})

\* mutant of getActivityLevel: the band limits are excluded
getActivityLevel_strict(holding) ==
    LET maxChange == CHOOSE x \in {Abs(Val(OrElse(holding.fiiChange, Num(0)))),
                                   Abs(Val(OrElse(holding.diiChange, Num(0)))),
                                   Abs(Val(OrElse(holding.totalChange, Num(0))))} :
                        /\ x >= Abs(Val(OrElse(holding.fiiChange, Num(0))))
                        /\ x >= Abs(Val(OrElse(holding.diiChange, Num(0))))
                        /\ x >= Abs(Val(OrElse(holding.totalChange, Num(0))))
    IN IF maxChange > 5000
       THEN [level |-> "extreme", message |-> "Institutional holdings doubled or more!"]
       ELSE IF maxChange > 1500
       THEN [level |-> "very-high", message |-> "Very high institutional activity (15%+)"]
       ELSE IF maxChange > 1000
       THEN [level |-> "high", message |-> "High institutional activity (10%+)"]
       ELSE [level |-> "high", message |-> "Significant institutional activity (5%+)"]

\* Math.max(Math.abs(fiiChange || 0), Math.abs(diiChange || 0), Math.abs(totalChange || 0))
\* against 50, 15 and 10
getActivityLevel(holding) ==
    LET maxChange == CHOOSE x \in {Abs(Val(OrElse(holding.fiiChange, Num(0)))),
                                   Abs(Val(OrElse(holding.diiChange, Num(0)))),
                                   Abs(Val(OrElse(holding.totalChange, Num(0))))} :
                        /\ x >= Abs(Val(OrElse(holding.fiiChange, Num(0))))
                        /\ x >= Abs(Val(OrElse(holding.diiChange, Num(0))))
                        /\ x >= Abs(Val(OrElse(holding.totalChange, Num(0))))
    IN IF maxChange >= 5000
       THEN [level |-> "extreme", message |-> "Institutional holdings doubled or more!"]
       ELSE IF maxChange >= 1500
       THEN [level |-> "very-high", message |-> "Very high institutional activity (15%+)"]
       ELSE IF maxChange >= 1000
       THEN [level |-> "high", message |-> "High institutional activity (10%+)"]
       ELSE [level |-> "high", message |-> "Significant institutional activity (5%+)"]

\* the loop over significantHoldings: the entry of a security is replaced when
\* holding.quarter > existing.fiiDiiData.quarter as strings
RECURSIVE GroupLatest(_, _)
GroupLatest(significantHoldings, stockMap) ==
    IF significantHoldings = <<>> THEN stockMap
    ELSE LET holding == Head(significantHoldings)
             existing == stockMap[holding.stockId]
         IN GroupLatest(Tail(significantHoldings),
                IF existing = NoRow \/ StrGreater(holding.quarter, existing.fiiDiiData.quarter)
                THEN [stockMap EXCEPT ![holding.stockId] =
                         [stockId |-> holding.stockId, fiiDiiData |-> holding,
                          activityLevel |-> getActivityLevel(holding)]]
                ELSE stockMap)

\* Array.from(stockMap.values()), as the set of its entries
SignificantActivity(minChange) ==
    LET significantHoldings == OrderBy({r \in holdings : Matches(r, minChange)})
        stockMap == GroupLatest(significantHoldings, [s \in Symbols |-> NoRow])
    IN {stockMap[s] : s \in {t \in Symbols : stockMap[t] # NoRow}}

getStocksWithSignificantFiiDiiActivity(minChange) ==
    /\ activity' = [asked |-> TRUE, minChange |-> minChange,
                    stocks |-> SignificantActivity(minChange)]
    /\ UNCHANGED <<stockVars, holdVars, cal, schedVars, fetched, batch>>

----------------------------------------------------------------------------
(* The quarter-result table and the result scheduler *)

MaxCalls == 2

\* Date | null: the null of a date column
NullDate == [null |-> TRUE]

NoOp == [name |-> "none"]

\* the instants the wall clock takes: the local midnight that begins the last
\* day of Q4-2025, later on that day, and the first day of Q1-2026
Instants ==
    {[year |-> 2025, month |-> 11, date |-> 31, ms |-> 0],
     [year |-> 2025, month |-> 11, date |-> 31, ms |-> 1],
     [year |-> 2026, month |-> 0, date |-> 1, ms |-> 1]}

\* the announcement dates the exchange reports
AnnouncementDates == {[year |-> 2026, month |-> 0, date |-> 1, ms |-> 0]}

\* date.getTime(), up to an order-preserving map; a Date built from year,
\* month and day is at local midnight
Stamp(t) == ((t.year * 12 + t.month) * 31 + t.date) * 2 + (IF "ms" \in DOMAIN t THEN t.ms ELSE 0)

\* mutant of getExpectedAnnouncementDate: 45 days taken as one month and 15 days
getExpectedAnnouncementDate_monthAndHalf(quarterEndDate) ==
    IF quarterEndDate = InvalidDate THEN InvalidDate
    ELSE NormDate(quarterEndDate.year, quarterEndDate.month + 1, quarterEndDate.date + 15)

\* expectedDate.setDate(expectedDate.getDate() + 45)
getExpectedAnnouncementDate(quarterEndDate) ==
    IF quarterEndDate = InvalidDate THEN InvalidDate
    ELSE NormDate(quarterEndDate.year, quarterEndDate.month, quarterEndDate.date + 45)

\* quarters.push(currentQuarter); currentQuarter = getNextQuarter(currentQuarter), count times
RECURSIVE UpcomingFrom(_, _)
UpcomingFrom(currentQuarter, count) ==
    IF count <= 0 THEN <<>>
    ELSE <<currentQuarter>> \o UpcomingFrom(getNextQuarter(currentQuarter), count - 1)

getUpcomingQuarters(now, count) == UpcomingFrom(getCurrentQuarter(now), count)

\* prisma.quarterResult.findUnique({ where: { stockId_quarter } })
FindResult(stockId, quarter) ==
    LET found == {r \in results : r.stockId = stockId /\ r.quarter = quarter}
    IN IF found = {} THEN NoRow ELSE CHOOSE r \in found : TRUE

\* the table after prisma.quarterResult.upsert: actualDate ?? undefined leaves
\* the stored actual date alone in the update branch; revenue, profit and eps
\* are carried the same way and are left out
upsertQuarterResult(data) ==
    LET existing == FindResult(data.stockId, data.quarter)
        row == [stockId |-> data.stockId,
                quarter |-> data.quarter,
                quarterEndDate |-> data.quarterEndDate,
                expectedDate |-> data.expectedDate,
                actualDate |-> IF existing # NoRow /\ data.actualDate = NullDate
                               THEN existing.actualDate ELSE data.actualDate,
                isAnnounced |-> data.isAnnounced]
    IN (results \ {existing}) \cup {row}

IdleGen == [pc |-> "idle", stocks |-> <<>>, quarters |-> <<>>, i |-> 1, j |-> 1]

\* the orders findMany may return the stored securities in
StockOrders ==
    {order \in UNION {[1..n -> StoredSymbols] : n \in {Cardinality(StoredSymbols)}} :
        \A a, b \in DOMAIN order : a # b => order[a] # order[b]}

\* the next iteration of the two nested loops
Advance(g) ==
    IF g.j < Len(g.quarters) THEN [g EXCEPT !.pc = "check", !.j = g.j + 1]
    ELSE [g EXCEPT !.pc = "check", !.i = g.i + 1, !.j = 1]

\* generateQuarterResultsForAllStocks up to the loops
GenStart ==
    /\ gen.pc = "idle"
    /\ \E order \in StockOrders :
         gen' = [pc |-> "check", stocks |-> order,
                 quarters |-> getUpcomingQuarters(clock, 2), i |-> 1, j |-> 1]
    /\ op' = NoOp
    /\ UNCHANGED <<results, clock, nCalls>>
    /\ UNCHANGED <<stockVars, holdVars, cal, activity, fetched, batch>>

\* mutant of GenCheck: a stored record is never written again
GenCheck_onlyMissing ==
    /\ gen.pc = "check"
    /\ gen.i <= Len(gen.stocks)
    /\ LET stock == gen.stocks[gen.i]
           quarter == gen.quarters[gen.j]
           existing == FindResult(stock, quarter)
       IN /\ gen' = IF existing = NoRow THEN [gen EXCEPT !.pc = "write"] ELSE Advance(gen)
          /\ op' = NoOp
    /\ UNCHANGED <<results, clock, nCalls>>
    /\ UNCHANGED <<stockVars, holdVars, cal, activity, fetched, batch>>

\* one iteration up to the test: findUnique, then !existing || new Date() > quarterEndDate
GenCheck ==
    /\ gen.pc = "check"
    /\ gen.i <= Len(gen.stocks)
    /\ LET stock == gen.stocks[gen.i]
           quarter == gen.quarters[gen.j]
           quarterEndDate == getQuarterEndDate_results(quarter)
           existing == FindResult(stock, quarter)
       IN /\ gen' = IF existing = NoRow \/ Stamp(clock) > Stamp(quarterEndDate)
                    THEN [gen EXCEPT !.pc = "write"] ELSE Advance(gen)
          /\ op' = NoOp
    /\ UNCHANGED <<results, clock, nCalls>>
    /\ UNCHANGED <<stockVars, holdVars, cal, activity, fetched, batch>>

\* the upsertQuarterResult call of the iteration
GenWrite ==
    /\ gen.pc = "write"
    /\ LET stock == gen.stocks[gen.i]
           quarter == gen.quarters[gen.j]
           quarterEndDate == getQuarterEndDate_results(quarter)
       IN /\ results' = upsertQuarterResult(
                            [stockId |-> stock, quarter |-> quarter,
                             quarterEndDate |-> quarterEndDate,
                             expectedDate |-> getExpectedAnnouncementDate(quarterEndDate),
                             actualDate |-> NullDate, isAnnounced |-> FALSE])
          /\ op' = NoOp
    /\ gen' = Advance(gen)
    /\ UNCHANGED <<clock, nCalls>>
    /\ UNCHANGED <<stockVars, holdVars, cal, activity, fetched, batch>>

\* the loops are over: return results
GenDone ==
    /\ gen.pc = "check"
    /\ gen.i > Len(gen.stocks)
    /\ gen' = IdleGen
    /\ op' = NoOp
    /\ UNCHANGED <<results, clock, nCalls>>
    /\ UNCHANGED <<stockVars, holdVars, cal, activity, fetched, batch>>

\* what fetchQuarterResultsFromNSE returns when the announcement search found
\* `found` (NullDate: nothing found): isAnnounced = announcementDate <= new Date()
NseResult(symbol, found, now) ==
    LET currentQuarter == getCurrentQuarter(now)
        quarterEndDate == getQuarterEndDate_results(currentQuarter)
        expectedDate == getExpectedAnnouncementDate(quarterEndDate)
        isAnnounced == found # NullDate /\ Stamp(found) <= Stamp(now)
    IN [symbol |-> symbol, quarter |-> currentQuarter, quarterEndDate |-> quarterEndDate,
        announcementDate |-> IF found # NullDate THEN found
                             ELSE IF isAnnounced THEN expectedDate ELSE NullDate,
        isAnnounced |-> isAnnounced]

\* one iteration of the update loop of getUpcomingQuarterResults({ fetchFromNSE: true })
RefreshResult(stock, found) ==
    /\ nCalls < MaxCalls
    /\ stocks[stock] # NoRow
    /\ LET nseResult == NseResult(stock, found, clock)
           quarterEndDate == getQuarterEndDate_results(nseResult.quarter)
       IN /\ results' = upsertQuarterResult(
                            [stockId |-> stock, quarter |-> nseResult.quarter,
                             quarterEndDate |-> quarterEndDate,
                             expectedDate |-> getExpectedAnnouncementDate(quarterEndDate),
                             actualDate |-> nseResult.announcementDate,
                             isAnnounced |-> nseResult.isAnnounced])
          /\ op' = [name |-> "refresh"]
    /\ nCalls' = nCalls + 1
    /\ UNCHANGED <<clock, gen>>
    /\ UNCHANGED <<stockVars, holdVars, cal, activity, fetched, batch>>

\* prisma.quarterResult.update: isAnnounced: true, actualDate: actualDate ?? new Date();
\* the update throws when the record does not exist
markQuarterResultAnnounced(stockId, quarter, actualDate) ==
    /\ nCalls < MaxCalls
    /\ FindResult(stockId, quarter) # NoRow
    /\ LET existing == FindResult(stockId, quarter)
       IN results' = (results \ {existing}) \cup
                        {[existing EXCEPT !.isAnnounced = TRUE,
                                          !.actualDate = IF actualDate = NullDate
                                                         THEN clock ELSE actualDate]}
    /\ op' = [name |-> "mark"]
    /\ nCalls' = nCalls + 1
    /\ UNCHANGED <<clock, gen>>
    /\ UNCHANGED <<stockVars, holdVars, cal, activity, fetched, batch>>

\* time passes
Tick ==
    /\ \E t \in Instants : Stamp(t) > Stamp(clock) /\ clock' = t
    /\ op' = NoOp
    /\ UNCHANGED <<results, gen, nCalls>>
    /\ UNCHANGED <<stockVars, holdVars, cal, activity, fetched, batch>>

InitSched ==
    /\ results = {}
    /\ clock = [year |-> 2025, month |-> 11, date |-> 31, ms |-> 0]
    /\ gen = IdleGen
    /\ op = NoOp
    /\ nCalls = 0

InitRest ==
    /\ InitSched
    /\ activity = NoQuery
    /\ fetched = NoFetch
    /\ batch = NoBatch

----------------------------------------------------------------------------
(* The holdings normalizer: fetchFiiDiiData and generateDummyFiiDiiData *)

Uppercase ==
    <<"A", "B", "C", "D", "E", "F", "G", "H", "I", "J", "K", "L", "M",
      "N", "O", "P", "Q", "R", "S", "T", "U", "V", "W", "X", "Y", "Z">>

Lowercase ==
    <<"a", "b", "c", "d", "e", "f", "g", "h", "i", "j", "k", "l", "m",
      "n", "o", "p", "q", "r", "s", "t", "u", "v", "w", "x", "y", "z">>

\* s.toLowerCase() on a sequence of characters
toLowerCase(s) ==
    [i \in DOMAIN s |->
        IF \E k \in 1..26 : Uppercase[k] = s[i]
        THEN Lowercase[CHOOSE k \in 1..26 : Uppercase[k] = s[i]]
        ELSE s[i]]

\* the keys of monthMap, in the order of their values 1..12
MonthKeys ==
    <<<<"j", "a", "n">>, <<"f", "e", "b">>, <<"m", "a", "r">>, <<"a", "p", "r">>,
      <<"m", "a", "y">>, <<"j", "u", "n">>, <<"j", "u", "l">>, <<"a", "u", "g">>,
      <<"s", "e", "p">>, <<"o", "c", "t">>, <<"n", "o", "v">>, <<"d", "e", "c">>>>

\* monthMap[month.toLowerCase()] || 1
monthMap(month) ==
    IF \E k \in 1..12 : MonthKeys[k] = toLowerCase(month)
    THEN CHOOSE k \in 1..12 : MonthKeys[k] = toLowerCase(month)
    ELSE 1

\* getTime() of the date a split key [day, month, year] names, up to an order-preserving map:
\* new Date(`${year}-${monthMap[month]}-${day.padStart(2, "0")}`).getTime()
TimeOf(parts) ==
    (Val(parseInt(parts[3])) * 12 + monthMap(parts[2])) * 31 + Val(parseInt(parts[1]))

parseDate(dateStr) == TimeOf(split(dateStr, "-"))

\* Object.keys(data).sort((a, b) => parseDate(b) - parseDate(a))[0]
LatestDate(data) ==
    LET keys == {data[i].date : i \in DOMAIN data}
    IN CHOOSE k \in keys : \A o \in keys : parseDate(o) <= parseDate(k)

\* `Q${Math.floor((monthNum - 1) / 3) + 1}-${year}` of a split key [day, month, year]
QuarterOf(parts) ==
    <<"Q">> \o NumToStr(Num((monthMap(parts[2]) - 1) \div 3 + 1)) \o <<"-">> \o parts[3]

MappedQuarter(latestDate) == QuarterOf(split(latestDate, "-"))

\* category names the exchange uses; names are atomic here and includes() is
\* the table of the probe words each lower-cased name contains
CategoryNames ==
    {"Foreign Institutional Investors", "FII", "Foreign Portfolio Investors",
     "Domestic Institutional Investors", "Mutual Funds", "Banks",
     "Promoter & Promoter Group", "Public"}

lowerName(name) ==
    CASE name = "Foreign Institutional Investors" -> "foreign institutional investors"
      [] name = "FII" -> "fii"
      [] name = "Foreign Portfolio Investors" -> "foreign portfolio investors"
      [] name = "Domestic Institutional Investors" -> "domestic institutional investors"
      [] name = "Mutual Funds" -> "mutual funds"
      [] name = "Banks" -> "banks"
      [] name = "Promoter & Promoter Group" -> "promoter & promoter group"
      [] name = "Public" -> "public"

includes(name, word) ==
    word \in
      CASE name = "foreign institutional investors" ->
               {"foreign", "institutional", "foreign institutional"}
        [] name = "foreign portfolio investors" ->
               {"foreign", "portfolio", "foreign portfolio", "foreign portfolio investors"}
        [] name = "domestic institutional investors" ->
               {"domestic", "institutional", "domestic institutional"}
        [] name = "mutual funds" -> {"mutual fund", "mutual funds"}
        [] name = "banks" -> {"bank", "banks"}
        [] OTHER -> {}

\* the three outcomes of a matcher on one category name
\* nested structure (lines 328-339)
NestedClass(k) ==
    IF \/ (includes(k, "foreign") /\ includes(k, "institutional"))
       \/ k = "fii" \/ includes(k, "foreign institutional")
       \/ includes(k, "foreign portfolio") \/ includes(k, "fpi")
    THEN "fii"
    ELSE IF \/ (includes(k, "domestic") /\ includes(k, "institutional"))
            \/ k = "dii" \/ includes(k, "domestic institutional")
    THEN "dii"
    ELSE IF \/ includes(k, "mutual fund") \/ includes(k, "insurance")
            \/ includes(k, "bank") \/ includes(k, "financial institution")
    THEN "add"
    ELSE "none"

\* flat structure (lines 357-373)
FlatClass(k) ==
    IF includes(k, "foreign") /\ (includes(k, "institutional") \/ includes(k, "portfolio"))
    THEN "fii"
    ELSE IF includes(k, "domestic") /\ includes(k, "institutional") THEN "dii"
    ELSE IF k = "fii" \/ includes(k, "foreign institutional") THEN "fii"
    ELSE IF k = "dii" \/ includes(k, "domestic institutional") THEN "dii"
    ELSE IF \/ includes(k, "foreign portfolio investors") \/ includes(k, "fpi")
            \/ includes(k, "foreign portfolio")
    THEN "fii"
    ELSE IF \/ includes(k, "mutual funds") \/ includes(k, "insurance companies")
            \/ includes(k, "banks") \/ includes(k, "financial institutions")
            \/ includes(k, "mutual fund") \/ includes(k, "insurance company")
    THEN "add"
    ELSE "none"

\* secondary endpoint (lines 413-422)
DetailedClass(k) ==
    IF \/ (includes(k, "foreign") /\ (includes(k, "institutional") \/ includes(k, "portfolio")))
       \/ k = "fii" \/ includes(k, "fpi")
    THEN "fii"
    ELSE IF (includes(k, "domestic") /\ includes(k, "institutional")) \/ k = "dii" THEN "dii"
    ELSE IF \/ includes(k, "mutual fund") \/ includes(k, "insurance")
            \/ includes(k, "bank") \/ includes(k, "financial institution")
    THEN "add"
    ELSE "none"

\* categories array (lines 488-495)
CategoryClass(k) ==
    IF (includes(k, "foreign") /\ includes(k, "institutional")) \/ k = "fii" THEN "fii"
    ELSE IF (includes(k, "domestic") /\ includes(k, "institutional")) \/ k = "dii" THEN "dii"
    ELSE "none"

\* no shareholding data found, no answer of the secondary endpoint
NoPayload == [found |-> FALSE]

\* the locals of the extraction: the two holdings, the strategy that assigned
\* each (history) and the period of the latest date key
NoHoldings ==
    [fiiHolding |-> Null, diiHolding |-> Null, fiiFrom |-> "none", diiFrom |-> "none",
     mappedQuarter |-> Null]

\* one assignment of a loop body: class "fii" and "dii" overwrite, "add" is
\* diiHolding = (diiHolding || 0) + value; an item whose value is NaN is skipped
Assign(st, class, value, from) ==
    IF ~IsFinite(value) \/ class = "none" THEN st
    ELSE IF class = "fii" THEN [st EXCEPT !.fiiHolding = value, !.fiiFrom = from]
    ELSE IF class = "dii" THEN [st EXCEPT !.diiHolding = value, !.diiFrom = from]
    ELSE [st EXCEPT !.diiHolding = Num(Val(OrElse(st.diiHolding, Num(0))) + Val(value)),
                    !.diiFrom = from]

\* for (const item of rows): an item is [name |-> the category name,
\* value |-> parseFloat of its value]
RECURSIVE ParseRows(_, _, _, _)
ParseRows(st, rows, matcher, from) ==
    IF rows = <<>> THEN st
    ELSE ParseRows(Assign(st,
                          IF matcher = "nested" THEN NestedClass(lowerName(Head(rows).name))
                          ELSE IF matcher = "flat" THEN FlatClass(lowerName(Head(rows).name))
                          ELSE IF matcher = "detailed" THEN DetailedClass(lowerName(Head(rows).name))
                          ELSE CategoryClass(lowerName(Head(rows).name)),
                          Head(rows).value, from),
                   Tail(rows), matcher, from)

\* first pass (lines 308-343): the items whose value is an object
RECURSIVE NestedPass(_, _)
NestedPass(st, latestData) ==
    IF latestData = <<>> THEN st
    ELSE NestedPass(IF Head(latestData).nested # <<>>
                    THEN ParseRows(st, Head(latestData).nested, "nested", "series")
                    ELSE st,
                    Tail(latestData))

\* data[dates[0]] of a date-keyed object
LatestData(data) == data[CHOOSE i \in DOMAIN data : data[i].date = LatestDate(data)].rows

\* the secondary endpoint (lines 386-426): fetchDetailedShareholdingFromNSE
\* answered detailedData, its latest row list is parsed
DetailedStep(st, detailedData) ==
    IF detailedData = NoPayload \/ detailedData.data = <<>> THEN st
    ELSE ParseRows(st, LatestData(detailedData.data),
                   "detailed", "secondary")

\* the rows of the latest date key alone (lines 303-375)
SeriesRows(st, latestData) ==
    IF \E i \in DOMAIN latestData : latestData[i].nested # <<>>
    THEN NestedPass(st, latestData)
    ELSE ParseRows(st, latestData, "flat", "series")

\* line 378: the secondary endpoint is asked when the rows gave neither holding
OrDetailed(parsed, detailedData) ==
    IF parsed.fiiHolding = Null /\ parsed.diiHolding = Null
    THEN DetailedStep(parsed, detailedData)
    ELSE parsed

\* the date-keyed block (lines 256-433); a payload without date keys has data = <<>>
SeriesStep(st, sd, detailedData) ==
    IF sd.data = <<>> THEN st
    ELSE OrDetailed(SeriesRows([st EXCEPT !.mappedQuarter = MappedQuarter(LatestDate(sd.data))],
                               LatestData(sd.data)),
                    detailedData)

\* direct properties (lines 437-447) and named properties (lines 450-469) of the
\* payload root: the key "fii" is found again by the named lookup, with the same
\* value; a root field is [defined |-> whether the key exists, value |-> its number]
RootStep(st, sd) ==
    LET afterFii == IF sd.fii.defined
                    THEN [st EXCEPT !.fiiHolding = sd.fii.value, !.fiiFrom = "root"]
                    ELSE st
    IN IF sd.dii.defined
       THEN [afterFii EXCEPT !.diiHolding = sd.dii.value, !.diiFrom = "root"]
       ELSE afterFii

\* one item of the categories array: holding || percentage || value || percent || null
RECURSIVE CategoryRows(_, _)
CategoryRows(st, categories) ==
    IF categories = <<>> THEN st
    ELSE LET class == CategoryClass(lowerName(Head(categories).name))
             holding == OrElse(Head(categories).value, Null)
             next == IF class = "fii"
                     THEN [st EXCEPT !.fiiHolding = holding, !.fiiFrom = "breakdown"]
                     ELSE IF class = "dii"
                     THEN [st EXCEPT !.diiHolding = holding, !.diiFrom = "breakdown"]
                     ELSE st
         IN CategoryRows(next, Tail(categories))

\* the categories array (lines 485-497), read when either holding is still null
CategoriesStep(st, sd) ==
    IF (st.fiiHolding = Null \/ st.diiHolding = Null) /\ sd.categories # <<>>
    THEN CategoryRows(st, sd.categories)
    ELSE st

\* lines 500-514: a value strictly between 0 and 1 is taken for a fraction
AsPercentage(holding) ==
    IF holding # Null /\ Val(holding) > 0 /\ Val(holding) < 100
    THEN Num(Val(holding) * 100)
    ELSE holding

\* lines 500-514 on both holdings; a holding that is null came from nowhere
Normalised(st) ==
    [st EXCEPT !.fiiHolding = AsPercentage(st.fiiHolding),
               !.diiHolding = AsPercentage(st.diiHolding),
               !.fiiFrom = IF st.fiiHolding = Null THEN "none" ELSE st.fiiFrom,
               !.diiFrom = IF st.diiHolding = Null THEN "none" ELSE st.diiFrom]

\* the locals when the extraction ends (line 514)
Extract(sd, detailedData) ==
    Normalised(CategoriesStep(RootStep(SeriesStep(NoHoldings, sd, detailedData), sd), sd))

\* Math.min(x, 100) on hundredths
CapAtHundred(x) == IF x > 10000 THEN 10000 ELSE x

\* generateDummyFiiDiiData; draws are what Math.random() led to, on the grid of
\* hundredths: the two bases and the two variations
generateDummyFiiDiiData(symbol, quarter, quarterEndDate, draws) ==
    LET fiiHolding == CapAtHundred(draws.baseFii + draws.fiiVariation)
        diiHolding == CapAtHundred(draws.baseDii + draws.diiVariation)
    IN [symbol |-> symbol, quarter |-> quarter, quarterEndDate |-> quarterEndDate,
        fiiHolding |-> Num(fiiHolding), diiHolding |-> Num(diiHolding),
        totalInstitutional |-> Num(CapAtHundred(fiiHolding + diiHolding))]

\* lines 517-537: the record returned when the extraction found a holding
LiveResult(symbol, targetQuarter, st) ==
    [fetched |-> TRUE, live |-> TRUE, fiiFrom |-> st.fiiFrom, diiFrom |-> st.diiFrom,
     data |-> [symbol |-> symbol,
               quarter |-> IF st.mappedQuarter # Null THEN st.mappedQuarter ELSE targetQuarter,
               quarterEndDate |-> IF st.mappedQuarter # Null
                                  THEN getQuarterEndDate(st.mappedQuarter)
                                  ELSE getQuarterEndDate(targetQuarter),
               fiiHolding |-> st.fiiHolding, diiHolding |-> st.diiHolding,
               totalInstitutional |-> TotalOf(st.fiiHolding, st.diiHolding)]]

\* the synthetic record, for the period asked for
DummyResult(symbol, targetQuarter, draws) ==
    [fetched |-> TRUE, live |-> FALSE, fiiFrom |-> "none", diiFrom |-> "none",
     data |-> generateDummyFiiDiiData(symbol, targetQuarter, getQuarterEndDate(targetQuarter),
                                      draws)]

\* lines 526-548: the live record if either holding was found, else the synthetic one
LiveOrDummy(symbol, targetQuarter, st, draws) ==
    IF st.fiiHolding # Null \/ st.diiHolding # Null
    THEN LiveResult(symbol, targetQuarter, st)
    ELSE DummyResult(symbol, targetQuarter, draws)

\* fetchFiiDiiData for targetQuarter = quarter || getCurrentQuarter(): what it
\* returns, and for a live result the strategy each holding came from;
\* input.live is USE_REAL_API === "true", input.shareholdingData what methods 1
\* and 2 found
FetchFor(symbol, targetQuarter, input) ==
    IF ~input.live \/ input.shareholdingData = NoPayload
    THEN DummyResult(symbol, targetQuarter, input.draws)
    ELSE LiveOrDummy(symbol, targetQuarter,
                     Extract(input.shareholdingData, input.detailedData), input.draws)

fetchFiiDiiData(symbol, quarter, input, now) ==
    FetchFor(symbol, IF quarter = Undefined THEN getCurrentQuarter(now) ELSE quarter, input)

\* one call of fetchFiiDiiData for the input drawn
Fetch ==
    /\ feed # NoFeed
    /\ fetched = NoFetch
    /\ fetched' = fetchFiiDiiData(feed.symbol, feed.quarter, feed.input, clock)
    /\ UNCHANGED <<stockVars, holdVars, cal, schedVars, activity, batch>>

\* POST /api/stocks/fii-dii/update: saveFiiDiiData(stock.id, fiiDiiData)
SaveFetched ==
    /\ fetched # NoFetch
    /\ SaveCalculate(fetched.data.symbol, fetched.data)

----------------------------------------------------------------------------
(* Specifications *)

InitStocks ==
    /\ stocks = [s \in Symbols |-> NoRow]
    /\ run = [p \in Scorers |-> IdleRun]
    /\ interfered = [p \in Scorers |-> FALSE]
    /\ lastRun = {}
    /\ passDone = NoPass

InitHoldings ==
    /\ holdings = {}
    /\ saves = {}
    /\ nSaves = 0

InitCal == cal = CalStart([year |-> MinYear, month |-> 0])

Init ==
    /\ InitStocks
    /\ feed = NoFeed
    /\ InitHoldings
    /\ InitCal
    /\ InitRest

\* refreshes, track toggles and scoring passes, freely interleaved
Refresh == \E sym \in Symbols, data \in SmallPayloads : updateStockInDB(sym, data)

Track == \E sym \in Symbols, t \in BOOLEAN : TrackStock(sym, t)

Scoring == \E p \in Scorers : ScoreRead(p) \/ SetTrue(p) \/ SetFalse(p)

Next == Refresh \/ Track \/ Scoring

Spec == Init /\ [][Next]_vars

\* scorer harness: one security, one payload drawn at the start, one pass at a time
InitScore ==
    /\ InitStocks
    /\ feed \in AllPayloads
    /\ InitHoldings
    /\ InitCal
    /\ InitRest

RefreshFeed == updateStockInDB("RELIANCE", feed)

ScoreFeed == ScoreRead("s1") \/ SetTrue("s1") \/ SetFalse("s1")

NextScore == RefreshFeed \/ ScoreFeed

SpecScore == InitScore /\ [][NextScore]_vars

\* rows as the stock table can hold them: every column is a plain number
TableRows ==
    {[symbol |-> sym, currentPrice |-> price, peRatio |-> pe, weekHigh |-> high,
      weekLow |-> low, marketCap |-> Null, isTracked |-> FALSE, isUndervalued |-> FALSE] :
        sym \in Symbols, price \in {0, 100}, pe \in {Null, Num(12)},
        high \in {0, 100, 200}, low \in {0, 80}}

\* scoring harness: any rows are stored, then passes run one at a time
InitPass ==
    /\ stocks \in [Symbols -> TableRows \cup {NoRow}]
    /\ \A s \in Symbols : stocks[s] # NoRow => stocks[s].symbol = s
    /\ run = [p \in Scorers |-> IdleRun]
    /\ interfered = [p \in Scorers |-> FALSE]
    /\ lastRun = {}
    /\ passDone = NoPass
    /\ feed = NoFeed
    /\ InitHoldings
    /\ InitCal
    /\ InitRest

SpecPass == InitPass /\ [][ScoreFeed]_vars

\* the stock table after a seed: every security stored, nothing flagged
SeededStocks ==
    [s \in Symbols |->
        UpsertedRow(NoRow, s, [lastPrice |-> 100, pe |-> Undefined, weekHigh52 |-> Undefined,
                               weekLow52 |-> Undefined, marketCap |-> Undefined])]

InitSeeded ==
    /\ stocks = SeededStocks
    /\ run = [p \in Scorers |-> IdleRun]
    /\ interfered = [p \in Scorers |-> FALSE]
    /\ lastRun = {}
    /\ passDone = NoPass

\* holdings of several securities and periods saved in any order, saves overlapping
InitHold ==
    /\ InitSeeded
    /\ feed = NoFeed
    /\ InitHoldings
    /\ InitCal
    /\ InitRest

SaveStart == \E data \in OrderedData : SaveCalculate(data.symbol, data)

SaveFinish == \E sv \in saves : SaveUpsert(sv)

NextHold == SaveStart \/ SaveFinish

SpecHold == InitHold /\ [][NextHold]_vars

\* classifier harness: a prior-period and a current-period FiiDiiData are drawn
\* at the start and saved in any order
InitClassifier ==
    /\ InitSeeded
    /\ feed \in ClassifierFeeds
    /\ InitHoldings
    /\ InitCal
    /\ InitRest

SavePrior == SaveCalculate("RELIANCE", feed.prior)

SaveCurrent == SaveCalculate("RELIANCE", feed.current)

NextClassifier == SavePrior \/ SaveCurrent \/ SaveFinish

SpecClassifier == InitClassifier /\ [][NextClassifier]_vars

\* calendar harness: the wall clock is drawn at the start, the calendar
\* operations are applied to the current period
InitCalendar ==
    /\ InitStocks
    /\ feed = NoFeed
    /\ InitHoldings
    /\ \E now \in Clocks : cal = CalStart(now)
    /\ InitRest

NextCalendar == ApplyPrevious \/ ApplyNext \/ ApplyEndDateHoldings \/ ApplyEndDateResults

SpecCalendar == InitCalendar /\ [][NextCalendar]_vars

\* scheduler: generation passes, source refreshes and mark-announced calls,
\* freely interleaved while time passes
InitSchedule ==
    /\ InitSeeded
    /\ feed = NoFeed
    /\ InitHoldings
    /\ InitCal
    /\ InitRest

Generate == GenStart \/ GenCheck \/ GenWrite \/ GenDone

RefreshResults ==
    \E stock \in Symbols, found \in {NullDate} \cup AnnouncementDates : RefreshResult(stock, found)

MarkAnnounced ==
    \E r \in results, actualDate \in {NullDate} \cup AnnouncementDates :
        markQuarterResultAnnounced(r.stockId, r.quarter, actualDate)

NextSchedule == Generate \/ RefreshResults \/ MarkAnnounced \/ Tick

SpecSchedule == InitSchedule /\ [][NextSchedule]_vars

Q4of2024 == <<"Q", "4", "-", "2", "0", "2", "4">>

Q1of2025 == <<"Q", "1", "-", "2", "0", "2", "5">>

Q2of2025 == <<"Q", "2", "-", "2", "0", "2", "5">>

Q3of2024 == <<"Q", "3", "-", "2", "0", "2", "4">>

\* holdings of three consecutive periods across a year boundary are saved and
\* the significant-activity query is asked with each threshold
ActivityData ==
    {FiiDiiData(x[1], x[2], Num(x[3]), Num(1000), TotalOf(Num(x[3]), Num(1000))) :
        x \in {<<"RELIANCE", Q3of2024, 2000>>,
               <<"RELIANCE", Q4of2024, 1700>>, <<"RELIANCE", Q4of2024, 2000>>,
               <<"RELIANCE", Q4of2024, 2300>>,
               <<"RELIANCE", Q1of2025, 2100>>, <<"RELIANCE", Q1of2025, 3000>>,
               <<"TCS", Q4of2024, 2000>>, <<"TCS", Q1of2025, 2300>>}}

SaveActivity == \E data \in ActivityData : SaveCalculate(data.symbol, data)

Query == \E minChange \in MinChanges : getStocksWithSignificantFiiDiiActivity(minChange)

NextActivity == SaveActivity \/ SaveFinish \/ Query

SpecActivity == InitHold /\ [][NextActivity]_vars

\* date keys of the exchange's shareholding pattern
Jun30of2024 == <<"3", "0", "-", "J", "u", "n", "-", "2", "0", "2", "4">>

Sep30of2024 == <<"3", "0", "-", "S", "e", "p", "-", "2", "0", "2", "4">>

Dec31of2024 == <<"3", "1", "-", "D", "e", "c", "-", "2", "0", "2", "4">>

Mar31of2025 == <<"3", "1", "-", "M", "a", "r", "-", "2", "0", "2", "5">>

Q2of2024 == <<"Q", "2", "-", "2", "0", "2", "4">>

\* { "<name>": "<value>" } of a row list
Item(name, value) == [name |-> name, value |-> value, nested |-> <<>>]

\* row lists: both categories, FII alone, components (FII as the fraction 0.25),
\* no institutional category, and a nested breakdown
RowsBoth ==
    <<Item("Promoter & Promoter Group", Num(5000)),
      Item("Foreign Institutional Investors", Num(2000)),
      Item("Domestic Institutional Investors", Num(1000))>>

RowsFiiOnly == <<Item("FII", Num(2000)), Item("Public", Num(3000))>>

RowsParts ==
    <<Item("Foreign Portfolio Investors", Num(25)), Item("Mutual Funds", Num(500)),
      Item("Banks", Num(300)), Item("Public", NaN)>>

RowsPublic == <<Item("Promoter & Promoter Group", Num(5000)), Item("Public", Num(5000))>>

RowsNested ==
    <<[name |-> "Public", value |-> NaN,
       nested |-> <<[name |-> "FII", value |-> Num(1800)],
                    [name |-> "Mutual Funds", value |-> Num(500)],
                    [name |-> "Banks", value |-> Num(300)]>>]>>

\* date-keyed objects, the keys in the order the payload lists them
SeriesOptions ==
    {<<>>,
     <<[date |-> Sep30of2024, rows |-> RowsBoth], [date |-> Dec31of2024, rows |-> RowsNested],
       [date |-> Jun30of2024, rows |-> RowsParts]>>,
     <<[date |-> Jun30of2024, rows |-> RowsParts], [date |-> Sep30of2024, rows |-> RowsBoth]>>,
     <<[date |-> Mar31of2025, rows |-> RowsFiiOnly]>>,
     <<[date |-> Mar31of2025, rows |-> RowsParts]>>,
     <<[date |-> Mar31of2025, rows |-> RowsPublic]>>}

NoField == [defined |-> FALSE, value |-> Undefined]

\* payloads: a date-keyed object or none, root fields fii and dii or none, a
\* categories array or none
Payloads ==
    {[data |-> data, fii |-> root[1], dii |-> root[2], categories |-> categories] :
        data \in SeriesOptions,
        root \in {<<NoField, NoField>>,
                  <<[defined |-> TRUE, value |-> Num(2500)], NoField>>,
                  <<[defined |-> TRUE, value |-> Num(2500)],
                    [defined |-> TRUE, value |-> Num(1500)]>>},
        categories \in {<<>>,
                        <<[name |-> "Foreign Institutional Investors", value |-> Num(2100)],
                          [name |-> "Domestic Institutional Investors", value |-> Num(0)]>>}}

\* what Math.random() can lead to, at the ends of each range
DummyDraws ==
    [baseFii : {1000, 3999}, baseDii : {500, 2999},
     fiiVariation : {-500, 2999}, diiVariation : {-400, 399}]

\* inputs of one fetch: synthetic mode with any draws, or live mode with what
\* the exchange answers (nothing, or a payload and the secondary endpoint's answer)
FetchInputs ==
    {[live |-> FALSE, shareholdingData |-> NoPayload, detailedData |-> NoPayload, draws |-> draws] :
        draws \in DummyDraws}
    \cup {[live |-> TRUE, shareholdingData |-> sd, detailedData |-> detailed,
           draws |-> [baseFii |-> 1000, baseDii |-> 500, fiiVariation |-> -500,
                      diiVariation |-> 399]] :
            sd \in Payloads \cup {NoPayload},
            detailed \in {NoPayload, [data |-> <<[date |-> Mar31of2025, rows |-> RowsBoth]>>]}}

\* holdings of earlier periods, stored before the fetch
EarlierData ==
    {FiiDiiData("RELIANCE", quarter, Num(1600), Num(1000), Num(2600)) :
        quarter \in {Q2of2024, Q4of2024}}

\* one security is refreshed for the period asked for, or for the current one
InitFetch ==
    /\ InitSeeded
    /\ feed \in [symbol : {"RELIANCE"}, quarter : {Undefined, Q1of2025}, input : FetchInputs]
    /\ InitHoldings
    /\ InitCal
    /\ InitRest

SaveEarlier == \E data \in EarlierData : SaveCalculate(data.symbol, data)

NextFetch == Fetch \/ SaveEarlier \/ SaveFetched \/ SaveFinish

SpecFetch == InitFetch /\ [][NextFetch]_vars

\* period strings a caller can pass that are not Q<1-4>-<year>
MalformedPeriods ==
    {<<"Q", "5", "-", "2", "0", "2", "5">>, <<"Q", "0", "-", "2", "0", "2", "5">>,
     <<"2", "0", "2", "5", "-", "Q", "1">>, <<"g", "a", "r", "b", "a", "g", "e">>}

\* the caller passes a period, well formed or not
InitPeriod ==
    /\ InitSeeded
    /\ feed \in [symbol : {"RELIANCE"}, quarter : MalformedPeriods \cup {Q1of2025},
                 input : FetchInputs]
    /\ InitHoldings
    /\ InitCal
    /\ InitRest

\* saveFiiDiiData of what was fetched; a row whose quarterEndDate is an Invalid
\* Date is taken to be refused by the store
SavePeriod ==
    /\ fetched # NoFetch
    /\ fetched.data.quarterEndDate # InvalidDate
    /\ SaveCalculate(fetched.data.symbol, fetched.data)

NextPeriod == Fetch \/ SavePeriod \/ SaveFinish

SpecPeriod == InitPeriod /\ [][NextPeriod]_vars

----------------------------------------------------------------------------
(* Batch refreshes: fetchAndUpdateStocks, the POST /api/stocks/fetch loop and *)
(* the POST /api/stocks/fii-dii/update loop                                   *)

\* what the exchange does with one request in live mode: it answers with a
\* quote, the call throws, or the answer lacks info / priceInfo
LiveAnswers == {"data", "error", "nodata"}

\* USE_REAL_API unset: the exchange is not asked
Answers(live) == IF live THEN LiveAnswers ELSE {"dummy"}

\* the NSEStockData built from a complete answer
LiveQuote(symbol) ==
    [lastPrice |-> 120, pe |-> Num(12), weekHigh52 |-> Num(200), weekLow52 |-> Num(80),
     marketCap |-> Undefined]

\* the entry of DUMMY_STOCKS for the symbol
getDummyStockData(symbol) ==
    [lastPrice |-> 100, pe |-> Num(25), weekHigh52 |-> Num(150), weekLow52 |-> Num(90),
     marketCap |-> Num(6000)]

\* base price 100: high = 1.3 base, low = 0.7 base
generateMockStockData(symbol) ==
    [lastPrice |-> 100, pe |-> Num(20), weekHigh52 |-> Num(130), weekLow52 |-> Num(70),
     marketCap |-> Num(6000)]

\* fetchStockData: NoPayload is null
fetchStockData(symbol, answer) ==
    CASE answer = "dummy" -> getDummyStockData(symbol)
      [] answer = "data" -> LiveQuote(symbol)
      [] answer = "error" -> getDummyStockData(symbol)
      [] OTHER -> NoPayload

\* the source input of fetchFiiDiiData for each answer of the exchange
HoldingsInput(answer) ==
    [live |-> answer # "dummy",
     shareholdingData |-> IF answer = "data"
                          THEN [data |-> <<[date |-> Mar31of2025, rows |-> RowsBoth]>>,
                                fii |-> NoField, dii |-> NoField, categories |-> <<>>]
                          ELSE NoPayload,
     detailedData |-> NoPayload,
     draws |-> [baseFii |-> 1000, baseDii |-> 500, fiiVariation |-> -500, diiVariation |-> 399]]

\* k as an index into an array of length n: negative values count from the end
Clamp(k, n) == IF k < 0 THEN (IF n + k < 0 THEN 0 ELSE n + k) ELSE (IF k > n THEN n ELSE k)

\* Array.prototype.slice(start, end)
slice(array, start, end) ==
    SubSeq(array, Clamp(start, Len(array)) + 1, Clamp(end, Len(array)))

\* options?.batchSize || 10
DefaultBatchSize == 10

\* results.slice(0, 100) of the holdings response
MaxReturned == 100

\* the loop index is followed down to -MaxBack; from -list.length down every
\* iteration is alike (an empty slice, the same tests), so lower values are
\* represented by -MaxBack
MaxBack == 3

\* i += batchSize
Stepped(i, batchSize) == IF i + batchSize < -MaxBack THEN -MaxBack ELSE i + batchSize

\* the result entry pushed for one identifier; `answer` and `store` record what
\* the exchange and the database did, `paused` whether the inter-request delay
\* was awaited after the entry, `at` the value of i of its batch
Entry(symbol, success, answer, store, note, paused, at) ==
    [symbol |-> symbol, success |-> success, answer |-> answer, store |-> store,
     note |-> note, paused |-> paused, at |-> at]

\* the body of the inner loop of fetchAndUpdateStocks
StocksEntry(symbol, answer, store, at) ==
    IF store = "error"
    THEN Entry(symbol, FALSE, answer, store, FALSE, FALSE, at)
    ELSE Entry(symbol, TRUE, answer, store, fetchStockData(symbol, answer) = NoPayload, TRUE, at)

\* what fetchAndUpdateStocks hands to updateStockInDB
StocksData(symbol, answer) ==
    IF fetchStockData(symbol, answer) = NoPayload
    THEN generateMockStockData(symbol)
    ELSE fetchStockData(symbol, answer)

\* the body of the loop of POST /api/stocks/fetch
FetchEntry(symbol, answer, store) ==
    IF fetchStockData(symbol, answer) = NoPayload
    THEN Entry(symbol, FALSE, answer, "none", FALSE, FALSE, 0)
    ELSE Entry(symbol, store = "ok", answer, store, FALSE, FALSE, 0)

\* the body of the inner loop of POST /api/stocks/fii-dii/update
HoldingsEntry(symbol, answer, store, at, more) ==
    IF store = "error"
    THEN Entry(symbol, FALSE, answer, store, FALSE, FALSE, at)
    ELSE Entry(symbol, TRUE, answer, store, FALSE, more, at)

\* the row saveFiiDiiData(stock.id, data) upserts
SavedRow(stockId, data) ==
    HoldingRow(stockId, data,
               Changes(data, PreviousData(stockId, getPreviousQuarter(data.quarter))))

\* every variable but stocks, holdings and batch is left alone by a batch step
BatchFrame ==
    /\ UNCHANGED <<run, lastRun, feed, saves, nSaves, cal, schedVars, fetched>>
    /\ activity' = NoQuery

\* fetchAndUpdateStocks(symbols, {batchSize}) is called
StartStocks(symbols, batchSize, live) ==
    /\ batch = NoBatch
    /\ batch' = [pc |-> "loop", kind |-> "stocks", live |-> live, symbols |-> symbols,
                 list |-> symbols,
                 batchSize |-> IF batchSize = 0 THEN DefaultBatchSize ELSE batchSize,
                 i |-> 0, slice |-> <<>>, j |-> 1, results |-> <<>>, pauses |-> {}]
    /\ UNCHANGED <<stocks, interfered, passDone, holdings>>
    /\ BatchFrame

\* POST /api/stocks/fetch {symbols} is called
StartFetch(symbols, live) ==
    /\ batch = NoBatch
    /\ batch' = [pc |-> "item", kind |-> "fetch", live |-> live, symbols |-> symbols,
                 list |-> symbols, batchSize |-> Len(symbols),
                 i |-> 0, slice |-> symbols, j |-> 1, results |-> <<>>, pauses |-> {}]
    /\ UNCHANGED <<stocks, interfered, passDone, holdings>>
    /\ BatchFrame

\* POST /api/stocks/fii-dii/update {symbols} with batchSize in the query: the
\* stored securities among the symbols are read in the order the database
\* returns them; with none stored the request ends at once
StartHoldings(symbols, batchSize, live) ==
    /\ batch = NoBatch
    /\ \E stocksToUpdate \in Orders({symbols[k] : k \in DOMAIN symbols} \cap StoredSymbols) :
          batch' = [pc |-> IF stocksToUpdate = <<>> THEN "returned" ELSE "loop",
                    kind |-> "holdings", live |-> live, symbols |-> symbols,
                    list |-> stocksToUpdate, batchSize |-> batchSize,
                    i |-> 0, slice |-> <<>>, j |-> 1, results |-> <<>>, pauses |-> {}]
    /\ UNCHANGED <<stocks, interfered, passDone, holdings>>
    /\ BatchFrame

\* for (let i = 0; i < list.length; ...) { const batch = list.slice(i, i + batchSize)
BatchSlice ==
    /\ batch.pc = "loop"
    /\ batch.i < Len(batch.list)
    /\ batch' = [batch EXCEPT !.pc = "item", !.j = 1,
                               !.slice = slice(batch.list, batch.i, batch.i + batch.batchSize)]
    /\ UNCHANGED <<stocks, interfered, passDone, holdings>>
    /\ BatchFrame

\* one identifier of the batch in fetchAndUpdateStocks
StocksItem ==
    /\ batch.pc = "item" /\ batch.kind = "stocks"
    /\ batch.j <= Len(batch.slice)
    /\ \E answer \in Answers(batch.live), store \in {"ok", "error"} :
          /\ batch' = [batch EXCEPT !.j = batch.j + 1,
                                     !.results = Append(batch.results,
                                         StocksEntry(batch.slice[batch.j], answer, store, batch.i))]
          /\ IF store = "ok"
             THEN /\ stocks' = [stocks EXCEPT ![batch.slice[batch.j]] =
                                    UpsertedRow(stocks[batch.slice[batch.j]], batch.slice[batch.j],
                                                StocksData(batch.slice[batch.j], answer))]
                  /\ interfered' = Disturb("refresh")
                  /\ passDone' = NoPass
             ELSE UNCHANGED <<stocks, interfered, passDone>>
    /\ UNCHANGED holdings
    /\ BatchFrame

\* one identifier of the loop of POST /api/stocks/fetch
FetchItem ==
    /\ batch.pc = "item" /\ batch.kind = "fetch"
    /\ batch.j <= Len(batch.slice)
    /\ \E answer \in Answers(batch.live), store \in {"ok", "error"} :
          /\ batch' = [batch EXCEPT !.j = batch.j + 1,
                                     !.results = Append(batch.results,
                                         FetchEntry(batch.slice[batch.j], answer, store))]
          /\ IF store = "ok" /\ fetchStockData(batch.slice[batch.j], answer) # NoPayload
             THEN /\ stocks' = [stocks EXCEPT ![batch.slice[batch.j]] =
                                    UpsertedRow(stocks[batch.slice[batch.j]], batch.slice[batch.j],
                                                fetchStockData(batch.slice[batch.j], answer))]
                  /\ interfered' = Disturb("refresh")
                  /\ passDone' = NoPass
             ELSE UNCHANGED <<stocks, interfered, passDone>>
    /\ UNCHANGED holdings
    /\ BatchFrame

\* one security of the batch in POST /api/stocks/fii-dii/update, for
\* targetQuarter = getCurrentQuarter()
HoldingsItem ==
    /\ batch.pc = "item" /\ batch.kind = "holdings"
    /\ batch.j <= Len(batch.slice)
    /\ \E answer \in Answers(batch.live), store \in {"ok", "error"} :
          /\ batch' = [batch EXCEPT !.j = batch.j + 1,
                                     !.results = Append(batch.results,
                                         HoldingsEntry(batch.slice[batch.j], answer, store, batch.i,
                                                       batch.i + Len(batch.slice) < Len(batch.list)))]
          /\ IF store = "ok"
             THEN holdings' = Upserted(holdings,
                                  SavedRow(batch.slice[batch.j],
                                           fetchFiiDiiData(batch.slice[batch.j], Undefined,
                                                           HoldingsInput(answer), clock).data))
             ELSE UNCHANGED holdings
    /\ UNCHANGED <<stocks, interfered, passDone>>
    /\ BatchFrame

\* the end of a batch: the inter-batch delay if i + batchSize < list.length,
\* then i += batchSize
BatchAdvance ==
    /\ batch.pc = "item" /\ batch.kind # "fetch"
    /\ batch.j > Len(batch.slice)
    /\ batch' = [batch EXCEPT !.pc = "loop", !.i = Stepped(batch.i, batch.batchSize),
                               !.pauses = IF batch.i + batch.batchSize < Len(batch.list)
                                          THEN batch.pauses \cup {batch.i}
                                          ELSE batch.pauses]
    /\ UNCHANGED <<stocks, interfered, passDone, holdings>>
    /\ BatchFrame

\* the loop is left and the result entries are returned
BatchReturn ==
    /\ \/ batch.pc = "loop" /\ batch.i >= Len(batch.list)
       \/ batch.pc = "item" /\ batch.kind = "fetch" /\ batch.j > Len(batch.slice)
    /\ batch' = [batch EXCEPT !.pc = "returned",
                               !.results = IF batch.kind = "holdings"
                                           THEN slice(batch.results, 0, MaxReturned)
                                           ELSE batch.results]
    /\ UNCHANGED <<stocks, interfered, passDone, holdings>>
    /\ BatchFrame

\* lists of distinct identifiers
SymbolLists == UNION {Orders(set) : set \in SUBSET Symbols \ {{}}}

\* the batch size a caller passes
BatchSizes == {-1, 0, 1, 2}

\* batch harness: none, one or both securities are stored, then one batch
\* refresh is started and runs
InitBatch ==
    /\ stocks \in {[s \in Symbols |-> IF s \in set THEN SeededStocks[s] ELSE NoRow] :
                      set \in SUBSET Symbols}
    /\ run = [p \in Scorers |-> IdleRun]
    /\ interfered = [p \in Scorers |-> FALSE]
    /\ lastRun = {}
    /\ passDone = NoPass
    /\ feed = NoFeed
    /\ InitHoldings
    /\ InitCal
    /\ InitRest

StartBatch ==
    \E symbols \in SymbolLists, live \in BOOLEAN :
        \/ \E batchSize \in BatchSizes : StartStocks(symbols, batchSize, live)
        \/ StartFetch(symbols, live)
        \/ \E batchSize \in BatchSizes : StartHoldings(symbols, batchSize, live)

NextBatch ==
    StartBatch \/ BatchSlice \/ StocksItem \/ FetchItem \/ HoldingsItem \/ BatchAdvance
        \/ BatchReturn

SpecBatch == InitBatch /\ [][NextBatch]_vars

\* the batch refresh keeps running while it has a step to take
SpecBatchFair == InitBatch /\ [][NextBatch]_vars /\ WF_vars(NextBatch)

----------------------------------------------------------------------------
(* The scoring rule as the specification states it *)

\* num / den * 100 > k in JavaScript arithmetic (a zero denominator gives
\* Infinity, -Infinity or NaN)
PctAbove(num, den, k) ==
    IF den > 0 THEN num * 100 > k * den
    ELSE IF den < 0 THEN num * 100 < k * den
    ELSE num > 0

\* num / den * 100 < k in JavaScript arithmetic
PctBelow(num, den, k) ==
    IF den > 0 THEN num * 100 < k * den
    ELSE IF den < 0 THEN num * 100 > k * den
    ELSE num < 0

StatedPeFactor(pe) ==
    IF pe # Null /\ 0 < Val(pe) /\ Val(pe) < 15 THEN 30
    ELSE IF pe # Null /\ 15 <= Val(pe) /\ Val(pe) < 20 THEN 15
    ELSE 0

StatedHighFactor(price, high) ==
    IF PctAbove(high - price, high, 30) THEN 40
    ELSE IF PctAbove(high - price, high, 20) THEN 25
    ELSE IF PctAbove(high - price, high, 10) THEN 10
    ELSE 0

StatedLowFactor(price, low) ==
    IF PctAbove(price - low, low, 20) /\ PctBelow(price - low, low, 50) THEN 20 ELSE 0

StatedCapFactor(cap) ==
    IF cap # Null /\ Val(cap) < SmallCapLimit THEN 10 ELSE 0

StatedScore(row) ==
    StatedPeFactor(row.peRatio) + StatedHighFactor(row.currentPrice, row.weekHigh)
        + StatedLowFactor(row.currentPrice, row.weekLow) + StatedCapFactor(row.marketCap)

\* the period a well-formed token Qn-Y names, read off the token's characters
StatedPeriod(quarter) ==
    [q |-> DigitVal(quarter[2]), y |-> StrToNat(SubSeq(quarter, 4, Len(quarter)))]

WellFormed(quarter) ==
    /\ Len(quarter) >= 4
    /\ quarter[1] = "Q"
    /\ quarter[2] \in {"1", "2", "3", "4"}
    /\ quarter[3] = "-"
    /\ \A i \in 4..Len(quarter) : IsDigit(quarter[i])

\* March 31, June 30, September 30, December 31 of the period's own year
StatedEndDate(period) ==
    [year |-> period.y,
     month |-> IF period.q = 1 THEN 2 ELSE IF period.q = 2 THEN 5 ELSE IF period.q = 3 THEN 8 ELSE 11,
     date |-> IF period.q \in {1, 4} THEN 31 ELSE 30]

StatedPrevious(period) ==
    IF period.q = 1 THEN [q |-> 4, y |-> period.y - 1] ELSE [q |-> period.q - 1, y |-> period.y]

\* delta is (current - prior) / prior * 100 to two decimals, in hundredths
IsRoundedPct(delta, current, prior) ==
    /\ delta # Null
    /\ IsFinite(delta)
    /\ 2 * Abs(Val(delta) * prior - (current - prior) * 10000) <= Abs(prior)

\* the stated delta of one field: defined when the current value is present and
\* the prior record exists with a present, non-zero value; null otherwise
IsStatedDelta(delta, current, previousData, priorValue) ==
    IF current # Null /\ previousData # NoRow /\ priorValue # Null /\ Val(priorValue) # 0
    THEN IsRoundedPct(delta, Val(current), Val(priorValue))
    ELSE delta = Null

\* the three deltas of an in-flight save are the stated deltas against `previousData`
HasStatedDeltas(sv, previousData) ==
    /\ IsStatedDelta(sv.changes.fiiChange, sv.data.fiiHolding, previousData,
                     IF previousData = NoRow THEN Null ELSE previousData.fiiHolding)
    /\ IsStatedDelta(sv.changes.diiChange, sv.data.diiHolding, previousData,
                     IF previousData = NoRow THEN Null ELSE previousData.diiHolding)
    /\ IsStatedDelta(sv.changes.totalChange, sv.data.totalInstitutional, previousData,
                     IF previousData = NoRow THEN Null ELSE previousData.totalInstitutional)

SameKey(r, stockId, quarter) == r.stockId = stockId /\ r.quarter = quarter

\* the stored rows of `stockId` for the period one quarter before `quarter`
PriorRows(stockId, quarter) ==
    {r \in holdings : /\ r.stockId = stockId
                      /\ WellFormed(r.quarter)
                      /\ StatedPeriod(r.quarter) = StatedPrevious(StatedPeriod(quarter))}

FlaggedSymbols == {s \in StoredSymbols : stocks[s].isUndervalued}

StatedNext(period) ==
    IF period.q = 4 THEN [q |-> 1, y |-> period.y + 1] ELSE [q |-> period.q + 1, y |-> period.y]

\* the period the calendar date `now` falls in
StatedCurrent(now) == [q |-> now.month \div 3 + 1, y |-> now.year]

\* days from the start of the year to the start of month m (0 = January)
CumulativeDays == <<0, 31, 59, 90, 120, 151, 181, 212, 243, 273, 304, 334>>

\* the number of the calendar day `d`, counted from a fixed origin
DayNumber(d) ==
    d.year * 365 + (d.year - 1) \div 4 - (d.year - 1) \div 100 + (d.year - 1) \div 400
        + CumulativeDays[d.month + 1]
        + (IF d.month > 1 /\ ((d.year % 4 = 0 /\ d.year % 100 # 0) \/ d.year % 400 = 0)
           THEN 1 ELSE 0)
        + d.date

IsCalendarDate(d) ==
    /\ DOMAIN d = {"year", "month", "date"}
    /\ d.month \in 0..11
    /\ d.date \in 1..31

\* |delta| with null as 0, in hundredths of a percent
StatedMagnitude(change) == IF change = Null THEN 0 ELSE Abs(Val(change))

\* m = max(|FII delta|, |DII delta|, |total delta|)
StatedMax(r) ==
    LET f == StatedMagnitude(r.fiiChange)
        d == StatedMagnitude(r.diiChange)
        t == StatedMagnitude(r.totalChange)
    IN IF f >= d /\ f >= t THEN f ELSE IF d >= t THEN d ELSE t

StatedTier(max) ==
    IF max >= 5000 THEN "extreme" ELSE IF max >= 1500 THEN "very-high"
    ELSE IF max >= 500 THEN "high" ELSE "none"

\* period a is later than period b in (year, quarter-number) order
PeriodLater(a, b) == a.y > b.y \/ (a.y = b.y /\ a.q > b.q)

\* the stored records of `stockId` that qualify for threshold `minChange`:
\* significant, with a delta of absolute value at least the threshold
StatedQualifying(stockId, minChange) ==
    {r \in holdings :
        /\ r.stockId = stockId
        /\ r.isSignificant
        /\ \E c \in {r.fiiChange, r.diiChange, r.totalChange} :
              c # Null /\ Abs(Val(c)) >= minChange}

ResultRows(stockId, quarter) == {r \in results : SameKey(r, stockId, quarter)}

Q4of2025 == <<"Q", "4", "-", "2", "0", "2", "5">>

Q1of2026 == <<"Q", "1", "-", "2", "0", "2", "6">>


\* month names as date keys spell them
MonthAbbreviations ==
    <<<<"J", "a", "n">>, <<"F", "e", "b">>, <<"M", "a", "r">>, <<"A", "p", "r">>,
      <<"M", "a", "y">>, <<"J", "u", "n">>, <<"J", "u", "l">>, <<"A", "u", "g">>,
      <<"S", "e", "p">>, <<"O", "c", "t">>, <<"N", "o", "v">>, <<"D", "e", "c">>>>

\* the calendar date a key DD-Mon-YYYY names
KeyDay(key) ==
    [year |-> StrToNat(SubSeq(key, 8, 11)),
     month |-> (CHOOSE m \in 1..12 : MonthAbbreviations[m] = SubSeq(key, 4, 6)) - 1,
     date |-> StrToNat(SubSeq(key, 1, 2))]

\* the period of the chronologically latest date key of a date-keyed object
ReportedPeriod(data) ==
    LET days == {KeyDay(data[i].date) : i \in DOMAIN data}
    IN StatedCurrent(CHOOSE k \in days : \A o \in days : DayNumber(o) <= DayNumber(k))

\* what each extraction strategy finds in the payload when it is tried alone
StrategyYield(strategy, input) ==
    LET sd == input.shareholdingData
        st == IF strategy = "root" THEN RootStep(NoHoldings, sd)
              ELSE IF strategy = "breakdown" THEN CategoryRows(NoHoldings, sd.categories)
              ELSE IF strategy = "series"
              THEN (IF sd.data = <<>> THEN NoHoldings
                    ELSE SeriesRows(NoHoldings, LatestData(sd.data)))
              ELSE DetailedStep(NoHoldings, input.detailedData)
    IN [fiiHolding |-> AsPercentage(st.fiiHolding), diiHolding |-> AsPercentage(st.diiHolding)]

StrategyYields(strategy, input) ==
    StrategyYield(strategy, input).fiiHolding # Null
        \/ StrategyYield(strategy, input).diiHolding # Null

\* both holdings of `result` are what `strategy` alone yields
ComesFrom(result, strategy, input) ==
    /\ result.fiiFrom \in {strategy, "none"}
    /\ result.diiFrom \in {strategy, "none"}
    /\ result.data.fiiHolding = StrategyYield(strategy, input).fiiHolding
    /\ result.data.diiHolding = StrategyYield(strategy, input).diiHolding

\* the first strategy, in the stated priority order, that yields a target field
FirstStrategy(input) ==
    IF StrategyYields("root", input) THEN "root"
    ELSE IF StrategyYields("breakdown", input) THEN "breakdown"
    ELSE IF StrategyYields("series", input) THEN "series"
    ELSE "secondary"

\* position of s in the sequence seq
PositionIn(seq, s) == CHOOSE i \in DOMAIN seq : seq[i] = s

\* a batch run of fetchAndUpdateStocks or of the holdings update loop
IsBatchRun == batch.pc # "none" /\ batch.kind \in {"stocks", "holdings"}

\* the record the entry reports as persisted is stored
Persisted(kind, symbol) ==
    IF kind = "holdings" THEN \E r \in holdings : r.stockId = symbol
    ELSE stocks[symbol] # NoRow

\* the number of result entries of the identifier
EntriesOf(symbol) ==
    Cardinality({k \in DOMAIN batch.results : batch.results[k].symbol = symbol})

----------------------------------------------------------------------------
(* Claims *)

\* C1: when a scoring pass has just completed and no other writer wrote during
\* it, every stored snapshot is flagged exactly when its price is positive and
\* its score is at least 30.
C1_PassOverwritesFlags ==
    (passDone.completed /\ passDone.clean) =>
        \A s \in StoredSymbols :
            stocks[s].isUndervalued =
                (stocks[s].currentPrice > 0 /\ StatedScore(stocks[s]) >= 30)

\* C1 witness: an undisturbed pass has just completed, it reset the flag of a
\* snapshot whose price is not positive and it left a qualifying one flagged.
C1_Witness ==
    /\ passDone.completed /\ passDone.clean
    /\ \E s \in passDone.reset : stocks[s].currentPrice <= 0 /\ ~stocks[s].isUndervalued
    /\ \E s \in StoredSymbols : stocks[s].isUndervalued

\* C2 (as stated): in every reachable state the flagged snapshots are exactly
\* those that scored at least 30 in the latest scoring run.
C2_FlagsAlwaysMatchLastRun == FlaggedSymbols = lastRun

\* C3: every score the scorer computes is the sum of the four stated factors.
C3_ScoreIsSumOfFactors ==
    \A p \in Scorers : \A s \in DOMAIN run[p].scores :
        /\ stocks[s].currentPrice > 0
        /\ run[p].scores[s] = StatedScore(stocks[s])

\* C3 witness: scenario A (price 100, P/E 12, high 200, low 80, no market cap)
\* has been scored 90.
C3_Witness ==
    /\ feed = [lastPrice |-> 100, pe |-> Num(12), weekHigh52 |-> Num(200),
               weekLow52 |-> Num(80), marketCap |-> Undefined]
    /\ run["s1"].pc = "scored"
    /\ run["s1"].scores = [s \in {"RELIANCE"} |-> 90]

\* C4: the score of every snapshot, whatever its fields, is an integer in 0..100.
C4_ScoreInRange ==
    /\ \A s \in StoredSymbols : Score(stocks[s]) \in 0..100
    /\ \A p \in Scorers : \A s \in DOMAIN run[p].scores : run[p].scores[s] \in 0..100

\* C4 witness: a snapshot that takes all four factors has been scored 100.
C4_Witness ==
    /\ run["s1"].pc = "scored"
    /\ run["s1"].scores = [s \in {"RELIANCE"} |-> 100]

\* C5: each of the three deltas calculateFiiDiiChanges returns is the rounded
\* percentage change when the current value is present and the prior record
\* has a present, non-zero value, and null in every other case; it is never
\* Infinity or NaN.
C5_DeltasAreStatedOrNull == \A sv \in saves : HasStatedDeltas(sv, sv.previousData)

\* C5 witness: scenario C (FII 20.00 -> 23.00 gives 15.00, significant) next to
\* a DII delta that is null because the prior DII value is 0.
C5_Witness ==
    \E sv \in saves :
        /\ sv.previousData # NoRow
        /\ sv.previousData.fiiHolding = Num(2000) /\ sv.data.fiiHolding = Num(2300)
        /\ sv.changes.fiiChange = Num(1500)
        /\ sv.changes.isSignificant
        /\ sv.previousData.diiHolding = Num(0) /\ sv.data.diiHolding = Num(1000)
        /\ sv.changes.diiChange = Null

\* C6: every stored holding record is significant exactly when one of its
\* stored deltas is non-null with absolute value at least 5.
C6_SignificantIffDeltaAtLeastFive ==
    \A r \in holdings :
        r.isSignificant =
            (\E c \in {r.fiiChange, r.diiChange, r.totalChange} :
                c # Null /\ IsFinite(c) /\ Abs(Val(c)) >= 500)

\* C6 witness: a stored record is significant on a total delta of exactly 5.00
\* while its DII delta is below 5 and its FII delta is null; another stored
\* record has only null deltas and is not significant.
C6_Witness ==
    /\ \E r \in holdings :
        /\ r.isSignificant
        /\ r.totalChange = Num(500)
        /\ r.fiiChange = Null
        /\ r.diiChange # Null /\ Abs(Val(r.diiChange)) < 500
    /\ \E r \in holdings :
        /\ ~r.isSignificant
        /\ r.fiiChange = Null /\ r.diiChange = Null /\ r.totalChange = Null

\* C7: there is at most one stored holding record per (security, period), and a
\* save leaves exactly one record for its key and changes no record of another key.
C7_OneRecordPerKey ==
    [][/\ \A r1, r2 \in holdings' : SameKey(r1, r2.stockId, r2.quarter) => r1 = r2
       /\ \A sv \in saves \ saves' :
            /\ Cardinality({r \in holdings' : SameKey(r, sv.stockId, sv.data.quarter)}) = 1
            /\ {r \in holdings' : ~SameKey(r, sv.stockId, sv.data.quarter)}
                 = {r \in holdings : ~SameKey(r, sv.stockId, sv.data.quarter)}]_vars

\* C7 witness: two saves have completed and a single record is stored, so both
\* were for the same (security, period).
C7_Witness == nSaves = 2 /\ saves = {} /\ Cardinality(holdings) = 1

\* C8: a save for (security, p) reads the stored record of the same security for
\* exactly the period one quarter before p, computes its deltas against it (null
\* deltas when there is none), and stores that period as previousQuarter.
C8_DeltasAgainstCalendarPrior ==
    [][/\ \A sv \in saves' \ saves :
            IF PriorRows(sv.stockId, sv.data.quarter) = {}
            THEN sv.previousData = NoRow /\ HasStatedDeltas(sv, NoRow)
            ELSE /\ sv.previousData \in PriorRows(sv.stockId, sv.data.quarter)
                 /\ HasStatedDeltas(sv, sv.previousData)
       /\ \A sv \in saves \ saves' :
            \E r \in holdings' :
                /\ SameKey(r, sv.stockId, sv.data.quarter)
                /\ WellFormed(r.previousQuarter)
                /\ StatedPeriod(r.previousQuarter) = StatedPrevious(StatedPeriod(r.quarter))
                /\ r.fiiChange = sv.changes.fiiChange
                /\ r.diiChange = sv.changes.diiChange
                /\ r.totalChange = sv.changes.totalChange]_vars

\* C8 witness: for one security, the record for Q2-2025 was saved with null
\* deltas while only Q4-2024 was stored, and the record for Q1-2025 carries a
\* delta against Q4-2024, its previousQuarter across the year boundary.
C8_Witness ==
    \E r4, r1, r2 \in holdings :
        /\ r4.stockId = r1.stockId /\ r1.stockId = r2.stockId
        /\ r4.quarter = Q4of2024 /\ r1.quarter = Q1of2025 /\ r2.quarter = Q2of2025
        /\ r4.fiiHolding = Num(2000) /\ r1.fiiHolding = Num(2100)
        /\ r1.previousQuarter = Q4of2024 /\ r1.fiiChange = Num(500)
        /\ r2.fiiHolding # Null /\ r2.fiiChange = Null /\ r2.totalChange = Null

\* C9 (as stated): for every well-formed token both implementations of
\* period_end_date return March 31 / June 30 / September 30 / December 31 of
\* the token's year.
C9_BothEndDatesAreQuarterEnds ==
    WellFormed(cal.quarter) =>
        /\ cal.endHoldings # NoDate => cal.endHoldings = StatedEndDate(StatedPeriod(cal.quarter))
        /\ cal.endResults # NoDate => cal.endResults = StatedEndDate(StatedPeriod(cal.quarter))

\* C10: next_period(previous_period(p)) = p for every well-formed token p.
C10_NextOfPreviousIsIdentity ==
    (WellFormed(cal.origin) /\ cal.trail = <<"previous", "next">>) => cal.quarter = cal.origin

\* C10 witness: the round trip was made from a first quarter, across the year boundary.
C10_Witness ==
    /\ cal.trail = <<"previous", "next">>
    /\ cal.origin[2] = "1"
    /\ cal.quarter = cal.origin
    /\ cal.origin = <<"Q", "1", "-", "2", "0", "2", "5">>

C15_EntriesCarryStatedTier ==
    activity.asked =>
        \A e \in activity.stocks :
            /\ e.fiiDiiData \in holdings
            /\ StatedMax(e.fiiDiiData) >= 500
            /\ e.activityLevel.level = StatedTier(StatedMax(e.fiiDiiData))

\* C15 witness: asked with threshold 0, the query returned an entry whose
\* largest delta is exactly 50.00 as "extreme", while a stored record of that
\* security whose deltas are all 0.00 and one with null deltas were not returned.
C15_Witness ==
    /\ activity.asked /\ activity.minChange = 0
    /\ \E e \in activity.stocks :
        /\ StatedMax(e.fiiDiiData) = 5000
        /\ e.activityLevel.level = "extreme"
        /\ \E r \in holdings :
            /\ r.stockId = e.stockId
            /\ r.fiiChange = Num(0) /\ r.diiChange = Num(0) /\ r.totalChange = Num(0)
        /\ \E r \in holdings :
            r.stockId = e.stockId /\ r.fiiChange = Null /\ r.totalChange = Null

C17_EverySignificantSecurityReturned ==
    activity.asked =>
        \A s \in Symbols :
            StatedQualifying(s, activity.minChange) # {} =>
                \E e \in activity.stocks : e.stockId = s

\* C18 (as stated): in every holdings result of the normalizer, live or
\* synthetic, the total institutional percentage is FII + DII when both are
\* present and null when either is absent.
C18_TotalIsSumOrNull ==
    fetched # NoFetch =>
        IF fetched.data.fiiHolding # Null /\ fetched.data.diiHolding # Null
        THEN fetched.data.totalInstitutional
                 = Num(Val(fetched.data.fiiHolding) + Val(fetched.data.diiHolding))
        ELSE fetched.data.totalInstitutional = Null

\* C19 (as stated): a live result extracted from a date-keyed payload names the
\* period of the chronologically latest date key, carries the end date of that
\* period, and is saved under that period with deltas against the period before.
C19_ReportedPeriodIsUsed ==
    [][(fetched' # NoFetch /\ fetched'.live
            /\ "series" \in {fetched'.fiiFrom, fetched'.diiFrom}) =>
        LET reported == ReportedPeriod(feed.input.shareholdingData.data)
        IN /\ WellFormed(fetched'.data.quarter)
           /\ StatedPeriod(fetched'.data.quarter) = reported
           /\ fetched'.data.quarterEndDate = StatedEndDate(reported)
           /\ \A sv \in saves' \ saves :
                sv.data = fetched'.data =>
                    IF PriorRows(sv.stockId, sv.data.quarter) = {}
                    THEN sv.previousData = NoRow /\ HasStatedDeltas(sv, NoRow)
                    ELSE /\ sv.previousData \in PriorRows(sv.stockId, sv.data.quarter)
                         /\ HasStatedDeltas(sv, sv.previousData)
           /\ \A sv \in saves \ saves' :
                sv.data = fetched'.data =>
                    \E r \in holdings' :
                        /\ r.stockId = sv.stockId
                        /\ StatedPeriod(r.quarter) = reported
                        /\ StatedPeriod(r.previousQuarter) = StatedPrevious(reported)
                        /\ r.fiiHolding = sv.data.fiiHolding
                        /\ r.fiiChange = sv.changes.fiiChange
                        /\ r.diiChange = sv.changes.diiChange
                        /\ r.totalChange = sv.changes.totalChange]_vars

\* C20 (as stated): the FII and DII values of a live result both come from the
\* first strategy, in the order root fields, category breakdown, date-keyed
\* series, secondary endpoint, that yields a field; no other strategy
\* contributes a value or overwrites one.
C20_SingleStrategy ==
    (fetched # NoFetch /\ fetched.live) => ComesFrom(fetched, FirstStrategy(feed.input), feed.input)

\* C26: the scoring pass never fails on a zero denominator: a snapshot whose
\* 52-week high is 0 gets nothing from the distance-below-high factor, one whose
\* 52-week low is 0 gets nothing from the distance-above-low factor, the other
\* factors are still added, and the pass scores every priced snapshot.
C26_ZeroBoundsAreSkipped ==
    \A p \in Scorers :
        /\ run[p].pc # "idle" => DOMAIN run[p].scores = PricedSymbols
        /\ \A s \in DOMAIN run[p].scores :
              /\ stocks[s].weekHigh = 0 =>
                    run[p].scores[s] = StatedPeFactor(stocks[s].peRatio)
                        + StatedLowFactor(stocks[s].currentPrice, stocks[s].weekLow)
                        + StatedCapFactor(stocks[s].marketCap)
              /\ stocks[s].weekLow = 0 =>
                    run[p].scores[s] = StatedPeFactor(stocks[s].peRatio)
                        + StatedHighFactor(stocks[s].currentPrice, stocks[s].weekHigh)
                        + StatedCapFactor(stocks[s].marketCap)

\* C26 witness: a pass scored a snapshot with 52-week high 0 (price 100, P/E 12,
\* low 80) 50 and a snapshot with 52-week low 0 (price 100, P/E 12, high 200) 70.
C26_Witness ==
    /\ run["s1"].pc = "scored"
    /\ stocks["RELIANCE"] # NoRow /\ stocks["TCS"] # NoRow
    /\ stocks["RELIANCE"].weekHigh = 0 /\ stocks["RELIANCE"].currentPrice = 100
    /\ run["s1"].scores["RELIANCE"] = 50
    /\ stocks["TCS"].weekLow = 0 /\ stocks["TCS"].currentPrice = 100
    /\ run["s1"].scores["TCS"] = 70

\* C27: the scoring pass returns exactly the snapshots with price > 0 and score
\* >= 30, each once, by score non-increasing, snapshots of equal score in the
\* order they were read.
C27_RankedByScoreStable ==
    \A p \in Scorers :
        run[p].pc # "idle" =>
            LET list == run[p].list
            IN /\ \A i, j \in DOMAIN list : i # j => list[i] # list[j]
               /\ {list[i] : i \in DOMAIN list}
                      = {s \in StoredSymbols :
                            stocks[s].currentPrice > 0 /\ StatedScore(stocks[s]) >= 30}
               /\ \A i, j \in DOMAIN list :
                     i < j =>
                        /\ StatedScore(stocks[list[i]]) >= StatedScore(stocks[list[j]])
                        /\ StatedScore(stocks[list[i]]) = StatedScore(stocks[list[j]]) =>
                              PositionIn(run[p].read, list[i]) < PositionIn(run[p].read, list[j])

\* C27 witness: two snapshots of score 70 were read TCS first and are returned
\* TCS first.
C27_Witness ==
    /\ run["s1"].pc = "flagged"
    /\ run["s1"].read = <<"TCS", "RELIANCE">>
    /\ run["s1"].list = <<"TCS", "RELIANCE">>
    /\ run["s1"].scores = [s \in Symbols |-> 70]

\* C28: the tracked flag of a stored snapshot changes only in a step of the
\* track operation (the refresh upsert and the scoring pass leave it alone), and
\* a snapshot created by the refresh starts untracked and not undervalued.
C28_TrackedOnlyByTrack ==
    [][\A s \in Symbols :
          /\ (stocks[s] # NoRow /\ stocks'[s] # NoRow
                /\ stocks'[s].isTracked # stocks[s].isTracked)
                => TrackStock(s, stocks'[s].isTracked)
          /\ (stocks[s] = NoRow /\ stocks'[s] # NoRow)
                => (~stocks'[s].isTracked /\ ~stocks'[s].isUndervalued)
          /\ stocks[s] # NoRow => stocks'[s] # NoRow]_vars

\* C28 witness: a snapshot the refresh created was tracked, refreshed to the
\* 52-week high 200 and flagged by a completed scoring pass; it is still tracked.
C28_Witness ==
    /\ stocks["RELIANCE"] # NoRow
    /\ stocks["RELIANCE"].isTracked
    /\ stocks["RELIANCE"].isUndervalued
    /\ stocks["RELIANCE"].weekHigh = 200
    /\ run["s1"].pc = "idle" /\ lastRun = {"RELIANCE"}
    /\ stocks["TCS"] # NoRow /\ ~stocks["TCS"].isTracked

\* C29 (as stated): whenever the record of the previous period of a stored
\* holding record's period is stored too, the record's deltas are the stated
\* deltas of its values against that stored prior record, and its significant
\* flag says whether a delta is at least five percent in magnitude, also when
\* the prior record was saved later.
C29_DeltasMatchStoredPrior ==
    \A r \in holdings :
        \A prior \in PriorRows(r.stockId, r.quarter) :
            /\ IsStatedDelta(r.fiiChange, r.fiiHolding, prior, prior.fiiHolding)
            /\ IsStatedDelta(r.diiChange, r.diiHolding, prior, prior.diiHolding)
            /\ IsStatedDelta(r.totalChange, r.totalInstitutional, prior,
                             prior.totalInstitutional)
            /\ r.isSignificant
                  <=> \E delta \in {r.fiiChange, r.diiChange, r.totalChange} :
                         delta # Null /\ IsFinite(delta) /\ Abs(Val(delta)) >= 500

\* C25 (as stated): every stored snapshot has 52-week high >= 52-week low, also
\* after refreshes whose payload lacks the high bound, the low bound or both, so
\* that the stored bound is the current price.
C25_HighAtLeastLow ==
    \A s \in StoredSymbols : stocks[s].weekHigh >= stocks[s].weekLow

\* C24 (as stated): a caller-supplied period string that is not Q<1-4>-<year>
\* is rejected: no save is made for it and no holding record is created or
\* modified, under the string itself or under any other period.
C24_MalformedPeriodRejected ==
    (feed # NoFeed /\ ~WellFormed(feed.quarter)) => (saves = {} /\ holdings = {})

\* C21 (as stated): a batch operation returns exactly one result entry per
\* input identifier, in input order, each marked success or failure; an error
\* while persisting one identifier gives a failure entry for it, and the
\* records persisted for the identifiers with a success entry stay stored.
C21_OneEntryPerIdentifier ==
    IsBatchRun =>
        /\ batch.pc = "returned" =>
              /\ Len(batch.results) = Len(batch.symbols)
              /\ \A k \in DOMAIN batch.results : batch.results[k].symbol = batch.symbols[k]
        /\ \A k \in DOMAIN batch.results :
              /\ batch.results[k].store = "error" => ~batch.results[k].success
              /\ batch.results[k].success => Persisted(batch.kind, batch.results[k].symbol)

\* C22 (as stated): in live mode, an identifier for which the exchange raised
\* an error or answered without usable data is refreshed from synthetic data:
\* unless the database itself failed, its record is persisted and its entry
\* reports success, in each of the three refresh loops.
C22_SourceFailureFallsBack ==
    (batch.pc # "none" /\ batch.live) =>
        \A k \in DOMAIN batch.results :
            (batch.results[k].answer \in {"error", "nodata"} /\ batch.results[k].store # "error")
                => /\ batch.results[k].success
                   /\ Persisted(batch.kind, batch.results[k].symbol)

\* C23 (as stated): in a batch run every identifier that is followed by another
\* one is followed by the inter-request delay, whether it succeeded or failed;
\* the inter-batch delay is awaited between the last identifier of a batch and
\* the first of the next batch, and not after the last batch.
C23_DelaysBetweenRequests ==
    IsBatchRun =>
        /\ \A k \in DOMAIN batch.results :
              k < Len(batch.results) =>
                 /\ batch.results[k].paused
                 /\ batch.results[k].at # batch.results[k + 1].at
                       => batch.results[k].at \in batch.pauses
        /\ (batch.pc = "returned" /\ batch.results # <<>>)
              => batch.results[Len(batch.results)].at \notin batch.pauses

\* C30 (as stated): for every identifier list and every integer batch size,
\* positive, zero or negative, the batch loop ends, having processed each
\* identifier of its list exactly once.
C30_BatchLoopTerminates ==
    [](IsBatchRun =>
         <>(/\ batch.pc = "returned"
            /\ \A k \in DOMAIN batch.list : EntriesOf(batch.list[k]) = 1))

====
